---- MODULE Spec2Model ----
(***************************************************************************)
(* Entity resolution engine of startuplens: name normalisation, the        *)
(* deterministic matcher, the link/merge primitives, the batch             *)
(* orchestrator and the command-line driver, over a relational store of    *)
(* canonical_entities and entity_links rows.                               *)
(*                                                                         *)
(* A company name is a sequence of one-character strings.  Identifiers     *)
(* produced by uuid.uuid4() are fresh naturals drawn from a counter.       *)
(***************************************************************************)
EXTENDS Naturals, Integers, Sequences, FiniteSets, TLC

VARIABLES
    entities,   \* canonical_entities rows as the writer's connection sees them
    links,      \* entity_links rows as the writer's connection sees them
    nextId,     \* next fresh uuid for a canonical entity
    nextLink,   \* next fresh uuid for an entity link
    committed,  \* the durable rows: [entities, links] as of the last commit
    pc,         \* where the writer is
    batch,      \* loop state of run_entity_resolution: [left, matched, created, total],
                \* and base, the number of entity rows when it was entered
    call,       \* the last call made: [op, rec, keep_id, merge_id]
    ret,        \* what the last call returned
    branch,     \* which step of the last resolve_entity succeeded
    hist,       \* what the last call found and did, for stating the properties
    companies,  \* rows of the companies table the command-line driver reads
    todo,       \* records of the driver's batch not yet resolved
    main,       \* the driver: [runs, bulk, run_probabilistic, failedAt]
    pairs,      \* matches run_probabilistic_pass has still to go through
    pass,       \* its counters: [pairs_found, merged, below_threshold]
    mergeLog,   \* the merges started so far: [keep_id, merge_id, moved]
    procs,      \* concurrent resolvers: [rec, pc, entity_id, branch, entities, links, raced]
    resolved,   \* the records resolve_entity inserted a link row for, as they were given
    fn,         \* a matcher function applied on its own: [arg, out, done]
    bulk,       \* loop state of bulk_create_entities: [i, total, batch_size, created,
                \* skipped], and slice, the records of the iteration just made
    metrics     \* loop state of compute_entity_resolution_metrics: [left, total,
                \* true_positives, false_positives, false_negatives], and pair, the
                \* ground-truth pair of the iteration just made

storeVars == <<entities, links, nextId, nextLink>>
callVars == <<call, ret, branch, hist, resolved>>
mainVars == <<companies, todo, main, pairs, pass, mergeLog>>
raceVars == <<procs>>
fnVars == <<fn, metrics>>
bulkVars == <<bulk>>

vars == <<entities, links, nextId, nextLink, committed, pc, batch, call, ret, branch, hist,
          companies, todo, main, pairs, pass, mergeLog, procs, resolved, fn, bulk, metrics>>

----------------------------------------------------------------------------
(* Bounds *)

MaxBatch == 2       \* records in one run_entity_resolution batch
MaxRuns == 2        \* times the command-line driver is run
MaxMembers == 3     \* records handed to find_probable_matches on its own
MaxBulk == 2        \* records in one bulk_create_entities call
MaxPairs == 2       \* pairs in one ground-truth list
MaxSuffixes == 2    \* legal-suffix tokens at the end of one name
MaxCalls == 2       \* normalize_name applied to its own result

----------------------------------------------------------------------------
(* Characters and strings *)

\* Python None; uuids are 1, 2, ...
None == 0

Whitespace == {" ", "\t"}

LowerSeq == <<"a","b","c","d","e","f","g","h","i","j","k","l","m",
              "n","o","p","q","r","s","t","u","v","w","x","y","z">>

UpperSeq == <<"A","B","C","D","E","F","G","H","I","J","K","L","M",
              "N","O","P","Q","R","S","T","U","V","W","X","Y","Z">>

LowerLetters == {LowerSeq[i] : i \in 1..26}

UpperLetters == {UpperSeq[i] : i \in 1..26}

Digits == {"0", "1", "2", "3", "4", "5", "6", "7", "8", "9"}

\* str.lower() on one ASCII character
LowerChar(c) ==
    IF c \in UpperLetters
    THEN LowerSeq[CHOOSE i \in 1..26 : UpperSeq[i] = c]
    ELSE c

\* unidecode() of one character: the closest ASCII rendering
UnidecodeChar(c) ==
    CASE c = "Ä" -> <<"A">>
      [] c = "é" -> <<"e">>
      [] c = "ß" -> <<"s", "s">>
      [] OTHER -> <<c>>

RECURSIVE unidecode(_)
unidecode(s) ==
    IF s = <<>> THEN <<>> ELSE UnidecodeChar(Head(s)) \o unidecode(Tail(s))

lower(s) == [i \in 1..Len(s) |-> LowerChar(s[i])]

\* \w of the regular expression, on ASCII text
IsWord(c) == c \in LowerLetters \cup UpperLetters \cup Digits \cup {"_"}

\* the alternatives of _SUFFIX_PATTERN
SuffixTokens ==
    { <<"l","i","m","i","t","e","d">>, <<"l","t","d">>, <<"i","n","c">>,
      <<"i","n","c","o","r","p","o","r","a","t","e","d">>,
      <<"l","l","c">>, <<"l",".","l",".","c",".">>, <<"p","l","c">>,
      <<"p",".","l",".","c",".">>, <<"c","o","r","p">>,
      <<"c","o","r","p","o","r","a","t","i","o","n">>, <<"c","o">>,
      <<"c","o","m","p","a","n","y">>, <<"g","m","b","h">>, <<"a","g">>,
      <<"s","a">>, <<"s","a","s">>, <<"s","a","r","l">>, <<"p","t","y">>,
      <<"p","v","t">>, <<"p","r","i","v","a","t","e">> }

\* \b just before position i of s
WordBoundary(s, i) ==
    LET before == i > 1 /\ IsWord(s[i-1])
        after  == i <= Len(s) /\ IsWord(s[i])
    IN  before # after

AllWhitespace(s, from) == \A k \in from..Len(s) : s[k] \in Whitespace

\* the pattern \b(tok)\.?\s*$ matches s starting at position i
SuffixMatchesAt(s, i) ==
    /\ WordBoundary(s, i)
    /\ \E tok \in SuffixTokens :
          /\ i + Len(tok) - 1 <= Len(s)
          /\ SubSeq(s, i, i + Len(tok) - 1) = tok
          /\ LET j == i + Len(tok)
             IN  \/ AllWhitespace(s, j)
                 \/ j <= Len(s) /\ s[j] = "." /\ AllWhitespace(s, j + 1)

\* _SUFFIX_PATTERN.sub("", s): the leftmost match runs to the end of s
SuffixSub(s) ==
    LET starts == {i \in 1..Len(s) : SuffixMatchesAt(s, i)}
    IN  IF starts = {} THEN s
        ELSE LET i == CHOOSE m \in starts : \A n \in starts : m <= n
             IN  SubSeq(s, 1, i - 1)

\* str.strip()
RECURSIVE strip(_)
strip(s) ==
    IF s = <<>> THEN s
    ELSE IF Head(s) \in Whitespace THEN strip(Tail(s))
    ELSE IF s[Len(s)] \in Whitespace THEN strip(SubSeq(s, 1, Len(s) - 1))
    ELSE s

\* re.sub(r"[^a-z0-9\s]", "", s)
IsKept(c) == c \in LowerLetters \cup Digits \cup Whitespace

RemovePunct(s) == SelectSeq(s, IsKept)

\* re.sub(r"\s+", " ", s)
RECURSIVE CollapseWs(_)
CollapseWs(s) ==
    IF s = <<>> THEN <<>>
    ELSE IF Head(s) \in Whitespace
         THEN IF Len(s) > 1 /\ s[2] \in Whitespace
              THEN CollapseWs(Tail(s))
              ELSE <<" ">> \o CollapseWs(Tail(s))
         ELSE <<Head(s)>> \o CollapseWs(Tail(s))

\* a normalisation that removes the punctuation before it looks for the suffix
normalize_name_punct_first(name) ==
    strip(CollapseWs(strip(SuffixSub(RemovePunct(lower(unidecode(name)))))))

normalize_name(name) ==
    strip(CollapseWs(RemovePunct(strip(SuffixSub(lower(unidecode(name)))))))

----------------------------------------------------------------------------
(* Records handed to the resolver *)

NameAbLtd     == <<"A","b"," ","L","t","d">>
NameAbLimited == <<"A","B"," ","L","I","M","I","T","E","D">>
NameAbPunct   == <<"Ä","b",","," ","L","t","d",".">>
NameCdInc     == <<"C","d"," ","I","n","c">>

Names == {NameAbLtd, NameAbLimited, NameAbPunct, NameCdInc}

Countries == {"GB", "gb", "US"}

\* str.lower() on a country code
LowerCountry(c) ==
    CASE c = "GB" -> "gb"
      [] c = "US" -> "us"
      [] OTHER -> c

\* normalize_name on the names that occur in records, computed once
NormalizedNames == [n \in Names |-> normalize_name(n)]

Normalize(name) ==
    IF name \in Names THEN NormalizedNames[name] ELSE normalize_name(name)

Rec(name, country, source, source_identifier) ==
    [name |-> name, country |-> country, source |-> source,
     source_identifier |-> source_identifier]

\* the source records handed to the resolver
Records ==
    { Rec(NameAbLtd, "GB", "registry", "001"),
      Rec(NameAbLimited, "gb", "filings", "A-1"),
      Rec(NameAbPunct, "GB", "registry", "002"),
      Rec(NameAbLtd, "US", "registry", "002"),
      Rec(NameCdInc, "GB", "filings", "A-1"),
      Rec(NameCdInc, "gb", "registry", "001"),
      Rec(NameAbLimited, "US", "filings", "A-1") }

\* the records bulk_create_entities is called with
BulkRecords ==
    { Rec(NameAbLtd, "GB", "registry", "001"),
      Rec(NameAbPunct, "GB", "registry", "002"),
      Rec(NameCdInc, "gb", "registry", "001") }

\* five source records of two companies, three of one and two of the other
FiveRecords ==
    { Rec(NameAbLtd, "GB", "registry", "001"),
      Rec(NameAbLimited, "gb", "filings", "A-1"),
      Rec(NameAbPunct, "GB", "registry", "002"),
      Rec(NameCdInc, "GB", "filings", "B-2"),
      Rec(NameCdInc, "gb", "ledger", "7") }

----------------------------------------------------------------------------
(* The store: canonical_entities and entity_links rows *)

EmptyStore == [entities |-> {}, links |-> {}]

\* a lookup that never finds the link
match_by_source_id_miss(L, source, source_identifier) == {None}

\* SELECT entity_id FROM entity_links WHERE source = .. AND source_identifier = ..
\* LIMIT 1: the values the call may return
match_by_source_id(L, source, source_identifier) ==
    LET rows == {l \in L : l.source = source /\ l.source_identifier = source_identifier}
    IN  IF rows # {} THEN {l.entity_id : l \in rows} ELSE {None}

\* the lookup with the country parameter compared as given, not lower-cased
match_by_legal_name_case(E, name, country) ==
    LET norm == Normalize(name)
        rows == {e \in E : lower(e.primary_name) = norm
                           /\ LowerCountry(e.country) = country}
    IN  IF rows # {} THEN {e.id : e \in rows} ELSE {None}

\* the lookup with the name lower-cased but not normalized
match_by_legal_name_raw(E, name, country) ==
    LET rows == {e \in E : lower(e.primary_name) = lower(name)
                           /\ LowerCountry(e.country) = LowerCountry(country)}
    IN  IF rows # {} THEN {e.id : e \in rows} ELSE {None}

\* the lookup by name alone
match_by_legal_name_any_country(E, name, country) ==
    LET norm == Normalize(name)
        rows == {e \in E : lower(e.primary_name) = norm}
    IN  IF rows # {} THEN {e.id : e \in rows} ELSE {None}

\* SELECT id FROM canonical_entities WHERE lower(primary_name) = normalize_name(name)
\* AND lower(country) = country.lower() LIMIT 1: the values the call may return
match_by_legal_name(E, name, country) ==
    LET norm == Normalize(name)
        rows == {e \in E : lower(e.primary_name) = norm
                           /\ LowerCountry(e.country) = LowerCountry(country)}
    IN  IF rows # {} THEN {e.id : e \in rows} ELSE {None}

\* the insert with the country stored as given
create_canonical_entity_raw(E, entity_id, name, country) ==
    E \cup {[id |-> entity_id, primary_name |-> Normalize(name),
             country |-> country]}

\* the insert skipped when a row with that name and country is already there
create_canonical_entity_on_conflict(E, entity_id, name, country) ==
    IF \E e \in E : /\ e.primary_name = Normalize(name)
                     /\ e.country = LowerCountry(country)
    THEN E
    ELSE E \cup {[id |-> entity_id, primary_name |-> Normalize(name),
                  country |-> LowerCountry(country)]}

\* INSERT INTO canonical_entities (id, primary_name, country)
create_canonical_entity(E, entity_id, name, country) ==
    E \cup {[id |-> entity_id, primary_name |-> Normalize(name),
             country |-> LowerCountry(country)]}

\* INSERT INTO entity_links (...)
link_entity(L, link_id, entity_id, source, source_identifier, confidence, match_method, source_name) ==
    L \cup {[id |-> link_id, entity_id |-> entity_id, source |-> source,
             source_identifier |-> source_identifier, source_name |-> source_name,
             match_method |-> match_method, confidence |-> confidence]}

\* the update without its WHERE clause
UpdateLinks_all(L, keep_id, merge_id) ==
    {[l EXCEPT !.entity_id = keep_id] : l \in L}

\* UPDATE entity_links SET entity_id = keep_id WHERE entity_id = merge_id
UpdateLinks(L, keep_id, merge_id) ==
    {IF l.entity_id = merge_id THEN [l EXCEPT !.entity_id = keep_id] ELSE l : l \in L}

\* DELETE FROM canonical_entities WHERE id = merge_id
DeleteEntity(E, merge_id) == {e \in E : e.id # merge_id}

\* the merge with its two ids exchanged
merge_entities_swapped(E, L, keep_id, merge_id) ==
    [entities |-> DeleteEntity(E, keep_id), links |-> UpdateLinks(L, merge_id, keep_id)]

\* a merge that drops the links of merge_id with its row
merge_entities_cascade(E, L, keep_id, merge_id) ==
    [entities |-> DeleteEntity(E, merge_id), links |-> {l \in L : l.entity_id # merge_id}]

merge_entities(E, L, keep_id, merge_id) ==
    [entities |-> DeleteEntity(E, merge_id), links |-> UpdateLinks(L, keep_id, merge_id)]

\* resolve_entity inserting a link row on a source-ID match as well
resolve_entity_relink(E, L, nid, nlid, rec) ==
    LET bySource == match_by_source_id(L, rec.source, rec.source_identifier)
        byName   == match_by_legal_name(E, rec.name, rec.country)
    IN  IF bySource # {None}
        THEN {[entities |-> E,
               links |-> link_entity(L, nlid, id, rec.source, rec.source_identifier,
                                     100, "exact_id", rec.name),
               ret |-> id, branch |-> "name"] : id \in bySource}
        ELSE IF byName # {None}
        THEN {[entities |-> E,
               links |-> link_entity(L, nlid, id, rec.source, rec.source_identifier,
                                     90, "deterministic", rec.name),
               ret |-> id, branch |-> "name"] : id \in byName}
        ELSE {[entities |-> create_canonical_entity(E, nid, rec.name, rec.country),
               links |-> link_entity(L, nlid, nid, rec.source, rec.source_identifier,
                                     100, "exact_id", rec.name),
               ret |-> nid, branch |-> "create"]}

\* resolve_entity trying the name lookup before the source-ID lookup
resolve_entity_name_first(E, L, nid, nlid, rec) ==
    LET bySource == match_by_source_id(L, rec.source, rec.source_identifier)
        byName   == match_by_legal_name(E, rec.name, rec.country)
    IN  IF byName # {None}
        THEN {[entities |-> E,
               links |-> link_entity(L, nlid, id, rec.source, rec.source_identifier,
                                     90, "deterministic", rec.name),
               ret |-> id, branch |-> "name"] : id \in byName}
        ELSE IF bySource # {None}
        THEN {[entities |-> E, links |-> L, ret |-> id, branch |-> "source_id"] :
                 id \in bySource}
        ELSE {[entities |-> create_canonical_entity(E, nid, rec.name, rec.country),
               links |-> link_entity(L, nlid, nid, rec.source, rec.source_identifier,
                                     100, "exact_id", rec.name),
               ret |-> nid, branch |-> "create"]}

\* resolve_entity without its name lookup
resolve_entity_no_name(E, L, nid, nlid, rec) ==
    LET bySource == match_by_source_id(L, rec.source, rec.source_identifier)
    IN  IF bySource # {None}
        THEN {[entities |-> E, links |-> L, ret |-> id, branch |-> "source_id"] :
                 id \in bySource}
        ELSE {[entities |-> create_canonical_entity(E, nid, rec.name, rec.country),
               links |-> link_entity(L, nlid, nid, rec.source, rec.source_identifier,
                                     100, "exact_id", rec.name),
               ret |-> nid, branch |-> "create"]}

\* resolve_entity: every outcome the call may have on rows E, L, with fresh
\* uuids nid (entity) and nlid (link) at hand
resolve_entity(E, L, nid, nlid, rec) ==
    LET bySource == match_by_source_id(L, rec.source, rec.source_identifier)
        byName   == match_by_legal_name(E, rec.name, rec.country)
    IN  IF bySource # {None}
        THEN {[entities |-> E, links |-> L, ret |-> id, branch |-> "source_id"] :
                 id \in bySource}
        ELSE IF byName # {None}
        THEN {[entities |-> E,
               links |-> link_entity(L, nlid, id, rec.source, rec.source_identifier,
                                     90, "deterministic", rec.name),
               ret |-> id, branch |-> "name"] : id \in byName}
        ELSE {[entities |-> create_canonical_entity(E, nid, rec.name, rec.country),
               links |-> link_entity(L, nlid, nid, rec.source, rec.source_identifier,
                                     100, "exact_id", rec.name),
               ret |-> nid, branch |-> "create"]}

----------------------------------------------------------------------------
(* Calls made by a single writer on one connection *)

NoRec == [name |-> <<>>, country |-> "", source |-> "", source_identifier |-> ""]

NoHist == [repeat |-> FALSE, sameCompany |-> FALSE, byName |-> {},
           keepLinks |-> 0, mergeLinks |-> 0, mergeExisted |-> FALSE]

NoBatch == [left |-> 0, matched |-> 0, created |-> 0, total |-> 0, base |-> 0]

NoMain == [runs |-> 0, bulk |-> FALSE, run_probabilistic |-> FALSE, failedAt |-> "none"]

\* the counters of run_probabilistic_pass, and clusters, the ids and avg_score
\* of the clusters find_probable_matches made pairs of in the call under way
NoPass == [pairs_found |-> 0, merged |-> 0, below_threshold |-> 0, clusters |-> <<>>]

NoFn == [arg |-> <<>>, out |-> <<>>, done |-> FALSE]

NoKey == [source |-> "", source_identifier |-> ""]

NoMetrics == [left |-> 0, total |-> 0, true_positives |-> 0, false_positives |-> 0,
              false_negatives |-> 0,
              pair |-> [source_a |-> NoKey, source_b |-> NoKey, same_entity |-> FALSE]]

NoBulk == [i |-> 0, total |-> 0, batch_size |-> 0, created |-> 0, skipped |-> 0,
           slice |-> <<>>]

EntityIds(E) == {e.id : e \in E}

LinksOf(L, entity_id) == {l \in L : l.entity_id = entity_id}

HasLink(L, source, source_identifier) ==
    \E l \in L : l.source = source /\ l.source_identifier = source_identifier

SameKey(r1, r2) ==
    r1.source = r2.source /\ r1.source_identifier = r2.source_identifier

\* two records that deterministic matching takes for the same company
SameCompany(r1, r2) ==
    /\ Normalize(r1.name) = Normalize(r2.name)
    /\ LowerCountry(r1.country) = LowerCountry(r2.country)

Init ==
    /\ entities = {}
    /\ links = {}
    /\ nextId = 1
    /\ nextLink = 1
    /\ committed = EmptyStore
    /\ pc = "idle"
    /\ batch = NoBatch
    /\ call = [op |-> "none", rec |-> NoRec, keep_id |-> None, merge_id |-> None]
    /\ ret = None
    /\ branch = "none"
    /\ hist = NoHist
    /\ companies = {}
    /\ todo = {}
    /\ main = NoMain
    /\ pairs = <<>>
    /\ pass = NoPass
    /\ mergeLog = {}
    /\ procs = <<>>
    /\ resolved = {}
    /\ fn = NoFn
    /\ metrics = NoMetrics
    /\ bulk = NoBulk

\* the effect of one resolve_entity(conn, rec.name, rec.country, rec.source,
\* rec.source_identifier) call on the connection's rows
DoResolve(rec) ==
    \E out \in resolve_entity(entities, links, nextId, nextLink, rec) :
        /\ entities' = out.entities
        /\ links' = out.links
        /\ nextId' = IF out.branch = "create" THEN nextId + 1 ELSE nextId
        /\ nextLink' = IF out.branch = "source_id" THEN nextLink ELSE nextLink + 1
        /\ ret' = out.ret
        /\ branch' = out.branch
        /\ call' = [op |-> "resolve_entity", rec |-> rec,
                    keep_id |-> None, merge_id |-> None]
        /\ hist' = [NoHist EXCEPT
                      !.repeat = call.op = "resolve_entity" /\ SameKey(call.rec, rec),
                      !.sameCompany = /\ call.op = "resolve_entity"
                                      /\ branch # "source_id"
                                      /\ ~SameKey(call.rec, rec)
                                      /\ SameCompany(call.rec, rec)
                                      /\ ~HasLink(links, rec.source, rec.source_identifier),
                      !.byName = match_by_legal_name(entities, rec.name, rec.country)]
        /\ resolved' = IF out.branch = "source_id" THEN resolved ELSE resolved \cup {rec}

\* resolve_entity called directly
Resolve ==
    /\ pc = "idle"
    /\ \E rec \in Records : DoResolve(rec)
    /\ UNCHANGED <<committed, pc, batch>>
    /\ UNCHANGED mainVars
    /\ UNCHANGED raceVars
    /\ UNCHANGED fnVars
    /\ UNCHANGED bulkVars

\* merge_entities(conn, keep_id, merge_id) called directly, on two ids handed
\* out earlier; as in the pairs of run_probabilistic_pass, an entity that
\* still exists is merged only into one that exists
MergeEntities ==
    /\ pc = "idle"
    /\ \E keep_id \in 1..(nextId - 1), merge_id \in 1..(nextId - 1) :
          /\ keep_id # merge_id
          /\ merge_id \in EntityIds(entities) => keep_id \in EntityIds(entities)
          /\ LET out == merge_entities(entities, links, keep_id, merge_id)
             IN  /\ entities' = out.entities
                 /\ links' = out.links
          /\ call' = [op |-> "merge_entities", rec |-> NoRec,
                      keep_id |-> keep_id, merge_id |-> merge_id]
          /\ hist' = [NoHist EXCEPT
                        !.keepLinks = Cardinality(LinksOf(links, keep_id)),
                        !.mergeLinks = Cardinality(LinksOf(links, merge_id)),
                        !.mergeExisted = merge_id \in EntityIds(entities)]
    /\ ret' = None
    /\ branch' = "none"
    /\ UNCHANGED <<nextId, nextLink, committed, pc, batch, resolved>>
    /\ UNCHANGED mainVars
    /\ UNCHANGED raceVars
    /\ UNCHANGED fnVars
    /\ UNCHANGED bulkVars

\* run_entity_resolution(conn, records) is entered with a list of n records
BatchStart ==
    /\ pc = "idle"
    /\ \E n \in 0..MaxBatch :
          batch' = [left |-> n, matched |-> 0, created |-> 0, total |-> n,
                    base |-> Cardinality(entities)]
    /\ pc' = "batch"
    /\ UNCHANGED <<entities, links, nextId, nextLink, committed>>
    /\ UNCHANGED callVars
    /\ UNCHANGED mainVars
    /\ UNCHANGED raceVars
    /\ UNCHANGED fnVars
    /\ UNCHANGED bulkVars

\* the classification looking at the source-ID lookup alone
Classify_source_only(rec) ==
    \E bySource \in match_by_source_id(links, rec.source, rec.source_identifier) :
       batch' = [batch EXCEPT
                   !.left = @ - 1,
                   !.matched = IF bySource # None THEN @ + 1 ELSE @,
                   !.created = IF bySource # None THEN @ ELSE @ + 1]

\* the counters after classifying rec against the rows as they are now
Classify(rec) ==
    \E bySource \in match_by_source_id(links, rec.source, rec.source_identifier),
       byName \in match_by_legal_name(entities, rec.name, rec.country) :
       LET existing == IF bySource # None THEN bySource ELSE byName
       IN  batch' = [batch EXCEPT
                       !.left = @ - 1,
                       !.matched = IF existing # None THEN @ + 1 ELSE @,
                       !.created = IF existing # None THEN @ ELSE @ + 1]

\* one iteration of the loop: classify the record, then resolve it
BatchStep ==
    /\ pc = "batch"
    /\ batch.left > 0
    /\ \E rec \in Records : Classify(rec) /\ DoResolve(rec)
    /\ UNCHANGED <<committed, pc>>
    /\ UNCHANGED mainVars
    /\ UNCHANGED raceVars
    /\ UNCHANGED fnVars
    /\ UNCHANGED bulkVars

\* the loop is over: return {"matched", "created", "total"}
BatchReturn ==
    /\ pc = "batch"
    /\ batch.left = 0
    /\ pc' = "idle"
    /\ call' = [op |-> "run_entity_resolution", rec |-> NoRec,
                keep_id |-> None, merge_id |-> None]
    /\ ret' = [matched |-> batch.matched, created |-> batch.created,
               total |-> batch.total]
    /\ branch' = "none"
    /\ hist' = NoHist
    /\ batch' = NoBatch
    /\ UNCHANGED <<entities, links, nextId, nextLink, committed, resolved>>
    /\ UNCHANGED mainVars
    /\ UNCHANGED raceVars
    /\ UNCHANGED fnVars
    /\ UNCHANGED bulkVars

Next == Resolve \/ MergeEntities \/ BatchStart \/ BatchStep \/ BatchReturn

Spec == Init /\ [][Next]_vars

\* deterministic resolution alone: no merge is ever run
NextDet == Resolve \/ BatchStart \/ BatchStep \/ BatchReturn

SpecDet == Init /\ [][NextDet]_vars

\* resolve_entity called directly on one of the five records
ResolveFive ==
    /\ pc = "idle"
    /\ \E rec \in FiveRecords : DoResolve(rec)
    /\ UNCHANGED <<committed, pc, batch>>
    /\ UNCHANGED mainVars
    /\ UNCHANGED raceVars
    /\ UNCHANGED fnVars
    /\ UNCHANGED bulkVars

NextFive == ResolveFive \/ MergeEntities

SpecFive == Init /\ [][NextFive]_vars

----------------------------------------------------------------------------
(* bulk_create_entities *)

\* the values of batch_size the calls are made with
BatchSizes == {1, 5000}

\* the loop commits when i + batch_size is a multiple of this
CommitEvery == 5000

\* a pre-check that finds no link
ExistingKeys_none(L, slice) == {}

\* SELECT source, source_identifier FROM entity_links WHERE (source,
\* source_identifier) IN (the pairs of the slice)
ExistingKeys(L, slice) ==
    {<<l.source, l.source_identifier>> :
        l \in {k \in L : \E p \in 1..Len(slice) : SameKey(k, slice[p])}}

\* new_records: the records of the slice whose pair the pre-check did not find
NewRecords(slice, existing) ==
    LET IsNew(r) == <<r.source, r.source_identifier>> \notin existing
    IN  SelectSeq(slice, IsNew)

\* the rows prepared for new_records, with fresh uuids from nid and nlid on
BulkRows(new_records, nid, nlid) ==
    [k \in 1..Len(new_records) |->
        [entity_id |-> nid + k - 1,
         link_id |-> nlid + k - 1,
         norm_name |-> Normalize(new_records[k].name),
         country |-> LowerCountry(new_records[k].country),
         source |-> new_records[k].source,
         source_identifier |-> new_records[k].source_identifier,
         source_name |-> new_records[k].name]]

\* the insert replacing the rows that have the name and country of a new row
BulkInsertEntities_upsert(E, rows) ==
    {e \in E : \A k \in 1..Len(rows) :
                  ~(e.primary_name = rows[k].norm_name /\ e.country = rows[k].country)}
      \cup {[id |-> rows[k].entity_id, primary_name |-> rows[k].norm_name,
               country |-> rows[k].country] : k \in 1..Len(rows)}

\* INSERT INTO canonical_entities ... VALUES (one row per new record)
\* ON CONFLICT (id) DO NOTHING
BulkInsertEntities(E, rows) ==
    E \cup {[id |-> rows[k].entity_id, primary_name |-> rows[k].norm_name,
             country |-> rows[k].country] :
               k \in {j \in 1..Len(rows) : rows[j].entity_id \notin EntityIds(E)}}

\* INSERT INTO entity_links ... VALUES (one row per new record)
\* ON CONFLICT (id) DO NOTHING; the confidence parameter "100" is stored as 100
BulkInsertLinks(L, rows) ==
    L \cup {[id |-> rows[k].link_id, entity_id |-> rows[k].entity_id,
             source |-> rows[k].source, source_identifier |-> rows[k].source_identifier,
             source_name |-> rows[k].source_name,
             match_method |-> "exact_id", confidence |-> 100] :
               k \in {j \in 1..Len(rows) : rows[j].link_id \notin {l.id : l \in L}}}

\* bulk_create_entities(conn, records, batch_size=...) is entered with n
\* records and a batch_size of sizes
BulkStartWith(sizes) ==
    /\ pc = "idle"
    /\ \E n \in 0..MaxBulk, batch_size \in sizes :
          bulk' = [i |-> 0, total |-> n, batch_size |-> batch_size, created |-> 0,
                   skipped |-> 0, slice |-> <<>>]
    /\ pc' = "bulk"
    /\ UNCHANGED <<committed, batch>>
    /\ UNCHANGED storeVars
    /\ UNCHANGED callVars
    /\ UNCHANGED mainVars
    /\ UNCHANGED raceVars
    /\ UNCHANGED fnVars

BulkStart == BulkStartWith(BatchSizes)

\* the call made with one record per multi-row INSERT
BulkStartSingle == BulkStartWith({1})

\* one iteration of the loop over records[i : i + batch_size]
BulkBatch ==
    /\ pc = "bulk"
    /\ bulk.i < bulk.total
    /\ LET len == IF bulk.total - bulk.i < bulk.batch_size
                  THEN bulk.total - bulk.i ELSE bulk.batch_size
       IN  \E slice \in [1..len -> BulkRecords] :
              LET existing == ExistingKeys(links, slice)
                  new_records == NewRecords(slice, existing)
                  rows == BulkRows(new_records, nextId, nextLink)
              IN  /\ entities' = BulkInsertEntities(entities, rows)
                  /\ links' = BulkInsertLinks(links, rows)
                  /\ nextId' = nextId + Len(rows)
                  /\ nextLink' = nextLink + Len(rows)
                  /\ bulk' = [bulk EXCEPT !.i = @ + bulk.batch_size,
                                          !.skipped = @ + Len(slice) - Len(new_records),
                                          !.created = @ + Len(rows),
                                          !.slice = slice]
                  /\ committed' = IF /\ new_records # <<>>
                                     /\ (bulk.i + bulk.batch_size) % CommitEvery = 0
                                  THEN [entities |-> entities', links |-> links']
                                  ELSE committed
    /\ UNCHANGED <<pc, batch>>
    /\ UNCHANGED callVars
    /\ UNCHANGED mainVars
    /\ UNCHANGED raceVars
    /\ UNCHANGED fnVars

\* the loop is over: conn.commit() and return {"created", "skipped", "total"}
BulkReturn ==
    /\ pc = "bulk"
    /\ bulk.i >= bulk.total
    /\ committed' = [entities |-> entities, links |-> links]
    /\ call' = [op |-> "bulk_create_entities", rec |-> NoRec,
                keep_id |-> None, merge_id |-> None]
    /\ ret' = [created |-> bulk.created, skipped |-> bulk.skipped, total |-> bulk.total]
    /\ branch' = "none"
    /\ hist' = NoHist
    /\ bulk' = NoBulk
    /\ pc' = "idle"
    /\ UNCHANGED <<batch, resolved>>
    /\ UNCHANGED storeVars
    /\ UNCHANGED mainVars
    /\ UNCHANGED raceVars
    /\ UNCHANGED fnVars

\* resolve_entity called directly on one of the records of the bulk calls
ResolveBulk ==
    /\ pc = "idle"
    /\ \E rec \in BulkRecords : DoResolve(rec)
    /\ UNCHANGED <<committed, pc, batch>>
    /\ UNCHANGED mainVars
    /\ UNCHANGED raceVars
    /\ UNCHANGED fnVars
    /\ UNCHANGED bulkVars

\* bulk creation next to resolve_entity calls
NextBulk == ResolveBulk \/ BulkStart \/ BulkBatch \/ BulkReturn

SpecBulk == Init /\ [][NextBulk]_vars

\* one iteration of run_entity_resolution on one of the records of the bulk calls
BatchStepBulk ==
    /\ pc = "batch"
    /\ batch.left > 0
    /\ \E rec \in BulkRecords : Classify(rec) /\ DoResolve(rec)
    /\ UNCHANGED <<committed, pc>>
    /\ UNCHANGED mainVars
    /\ UNCHANGED raceVars
    /\ UNCHANGED fnVars
    /\ UNCHANGED bulkVars

\* every operation a single writer calls on the store
NextLife ==
    \/ ResolveBulk \/ MergeEntities \/ BatchStart \/ BatchStepBulk \/ BatchReturn
    \/ BulkStartSingle \/ BulkBatch \/ BulkReturn

SpecLife == Init /\ [][NextLife]_vars

----------------------------------------------------------------------------
(* normalize_name as a function of the name *)

\* the part of a name before its legal suffixes, with the key it stands for
BaseNames ==
    { [text |-> <<"A","c","m","e">>, key |-> <<"a","c","m","e">>],
      [text |-> <<"A","C","M","E">>, key |-> <<"a","c","m","e">>],
      [text |-> <<"A","c","'","m","e">>, key |-> <<"a","c","m","e">>],
      [text |-> <<"C","o"," ","\t","Ä","b">>, key |-> <<"c","o"," ","a","b">>] }

\* legal-suffix tokens as they are written, with the letters each one leaves
\* when it is kept
SuffixForms ==
    { [text |-> <<"L","t","d">>, key |-> <<"l","t","d">>],
      [text |-> <<"L","I","M","I","T","E","D">>, key |-> <<"l","i","m","i","t","e","d">>],
      [text |-> <<"c","o">>, key |-> <<"c","o">>],
      [text |-> <<"L",".","L",".","C",".">>, key |-> <<"l","l","c">>] }

SuffixLists == UNION {[1..n -> SuffixForms] : n \in 0..MaxSuffixes}

\* the names normalize_name is applied to, by their parts
NameParts ==
    [lead : {<<>>, <<" ">>}, base : BaseNames, punct : {<<>>, <<",">>},
     suffixes : SuffixLists, dot : {<<>>, <<".">>}, tail : {<<>>, <<"!">>},
     trail : {<<>>, <<" ">>}]

RECURSIVE JoinSuffixes(_)
JoinSuffixes(toks) ==
    IF toks = <<>> THEN <<>> ELSE <<" ">> \o Head(toks).text \o JoinSuffixes(Tail(toks))

\* the name the parts spell
Compose(parts) ==
    parts.lead \o parts.base.text \o parts.punct \o JoinSuffixes(parts.suffixes)
        \o parts.dot \o parts.tail \o parts.trail

InitNormalize ==
    /\ entities = {} /\ links = {} /\ nextId = 1 /\ nextLink = 1
    /\ committed = EmptyStore
    /\ pc = "normalize"
    /\ batch = NoBatch
    /\ call = [op |-> "none", rec |-> NoRec, keep_id |-> None, merge_id |-> None]
    /\ ret = None
    /\ branch = "none"
    /\ hist = NoHist
    /\ resolved = {}
    /\ companies = {} /\ todo = {} /\ main = NoMain /\ pairs = <<>>
    /\ pass = NoPass /\ mergeLog = {}
    /\ procs = <<>>
    /\ bulk = NoBulk
    /\ metrics = NoMetrics
    /\ \E parts \in NameParts : fn = [arg |-> parts, out |-> <<>>, done |-> FALSE]

\* normalize_name(name), then normalize_name on what it returned
NormalizeName ==
    /\ pc = "normalize"
    /\ Len(fn.out) < MaxCalls
    /\ LET name == IF fn.out = <<>> THEN Compose(fn.arg) ELSE fn.out[Len(fn.out)]
       IN  fn' = [fn EXCEPT !.out = Append(@, normalize_name(name)), !.done = TRUE]
    /\ UNCHANGED <<committed, pc, batch, metrics>>
    /\ UNCHANGED storeVars
    /\ UNCHANGED callVars
    /\ UNCHANGED mainVars
    /\ UNCHANGED raceVars
    /\ UNCHANGED bulkVars

NextNormalize == NormalizeName

SpecNormalize == InitNormalize /\ [][NextNormalize]_vars

----------------------------------------------------------------------------
(* The validation harness: compute_entity_resolution_metrics *)

\* the source records ground-truth pairs are about
GroundTruthKeys ==
    {[source |-> r.source, source_identifier |-> r.source_identifier] : r \in Records}

GroundTruthPairs ==
    [source_a : GroundTruthKeys, source_b : GroundTruthKeys, same_entity : BOOLEAN]

\* a classification that takes every unresolved pair for a false negative
ClassifyPair_unresolved_fn(id_a, id_b, expected_same) ==
    IF id_a = None \/ id_b = None
    THEN "fn"
    ELSE LET predicted_same == id_a = id_b
         IN  IF predicted_same /\ expected_same THEN "tp"
             ELSE IF predicted_same /\ ~expected_same THEN "fp"
             ELSE IF ~predicted_same /\ expected_same THEN "fn"
             ELSE "none"

\* the counter one ground-truth pair goes to
ClassifyPair(id_a, id_b, expected_same) ==
    IF id_a = None \/ id_b = None
    THEN (IF expected_same THEN "fn" ELSE "none")
    ELSE LET predicted_same == id_a = id_b
         IN  IF predicted_same /\ expected_same THEN "tp"
             ELSE IF predicted_same /\ ~expected_same THEN "fp"
             ELSE IF ~predicted_same /\ expected_same THEN "fn"
             ELSE "none"

\* floats kept as exact fractions with a positive denominator
Frac(n, d) == [num |-> n, den |-> d]

FracMul(a, b) == Frac(a.num * b.num, a.den * b.den)

FracAdd(a, b) == Frac(a.num * b.den + b.num * a.den, a.den * b.den)

FracDiv(a, b) == Frac(a.num * b.den, a.den * b.num)

\* true_positives / (true_positives + other) if the sum is > 0 else 0.0
Ratio(true_positives, other) ==
    IF true_positives + other > 0
    THEN Frac(true_positives, true_positives + other)
    ELSE Frac(0, 1)

\* the two rates added up
F1_sum(precision, recall) == FracAdd(precision, recall)

\* 2 * precision * recall / (precision + recall) if (precision + recall) > 0 else 0.0
F1(precision, recall) ==
    IF FracAdd(precision, recall).num > 0
    THEN FracDiv(FracMul(Frac(2, 1), FracMul(precision, recall)), FracAdd(precision, recall))
    ELSE Frac(0, 1)

\* compute_entity_resolution_metrics(conn, ground_truth) is entered with n pairs
MetricsStart ==
    /\ pc = "idle"
    /\ \E n \in 0..MaxPairs :
          metrics' = [NoMetrics EXCEPT !.left = n, !.total = n]
    /\ pc' = "metrics"
    /\ UNCHANGED <<committed, batch, fn>>
    /\ UNCHANGED storeVars
    /\ UNCHANGED callVars
    /\ UNCHANGED mainVars
    /\ UNCHANGED raceVars
    /\ UNCHANGED bulkVars

\* one iteration of the loop over ground_truth
MetricsStep ==
    /\ pc = "metrics"
    /\ metrics.left > 0
    /\ \E pair \in GroundTruthPairs :
          \E id_a \in match_by_source_id(links, pair.source_a.source,
                                          pair.source_a.source_identifier),
             id_b \in match_by_source_id(links, pair.source_b.source,
                                          pair.source_b.source_identifier) :
             LET counter == ClassifyPair(id_a, id_b, pair.same_entity)
             IN  metrics' = [metrics EXCEPT
                               !.left = @ - 1,
                               !.true_positives = IF counter = "tp" THEN @ + 1 ELSE @,
                               !.false_positives = IF counter = "fp" THEN @ + 1 ELSE @,
                               !.false_negatives = IF counter = "fn" THEN @ + 1 ELSE @,
                               !.pair = pair]
    /\ UNCHANGED <<committed, pc, batch, fn>>
    /\ UNCHANGED storeVars
    /\ UNCHANGED callVars
    /\ UNCHANGED mainVars
    /\ UNCHANGED raceVars
    /\ UNCHANGED bulkVars

\* the loop is over: the rates are computed and the dict returned
MetricsReturn ==
    /\ pc = "metrics"
    /\ metrics.left = 0
    /\ LET precision == Ratio(metrics.true_positives, metrics.false_positives)
           recall == Ratio(metrics.true_positives, metrics.false_negatives)
       IN  ret' = [precision |-> precision, recall |-> recall,
                   f1 |-> F1(precision, recall),
                   true_positives |-> metrics.true_positives,
                   false_positives |-> metrics.false_positives,
                   false_negatives |-> metrics.false_negatives,
                   total_pairs |-> metrics.total]
    /\ call' = [op |-> "compute_entity_resolution_metrics", rec |-> NoRec,
                keep_id |-> None, merge_id |-> None]
    /\ branch' = "none"
    /\ hist' = NoHist
    /\ metrics' = NoMetrics
    /\ pc' = "idle"
    /\ UNCHANGED <<committed, batch, resolved, fn>>
    /\ UNCHANGED storeVars
    /\ UNCHANGED mainVars
    /\ UNCHANGED raceVars
    /\ UNCHANGED bulkVars

\* the harness run between resolve_entity calls
NextMetrics == ResolveBulk \/ MetricsStart \/ MetricsStep \/ MetricsReturn

SpecMetrics == Init /\ [][NextMetrics]_vars

----------------------------------------------------------------------------
(* The probabilistic matcher *)

\* confidence_threshold of run_probabilistic_pass, in hundredths
ConfidenceThreshold == 85

\* member scores the dedupe model may report, in hundredths
ScoreSet == {80, 90}

RECURSIVE SumSeq(_)
SumSeq(q) == IF q = <<>> THEN 0 ELSE Head(q) + SumSeq(Tail(q))

\* the score of the first member taken for the cluster's confidence
AvgScore_first(scores) == [sum |-> Head(scores), n |-> 1]

\* float(sum(scores)) / len(scores), kept as an exact fraction
AvgScore(scores) == [sum |-> SumSeq(scores), n |-> Len(scores)]

\* the comparison without its boundary: confidence > confidence_threshold
AtLeastThreshold_strict(confidence) == confidence.sum > ConfidenceThreshold * confidence.n

\* confidence >= confidence_threshold
AtLeastThreshold(confidence) == confidence.sum >= ConfidenceThreshold * confidence.n

\* pairs of neighbours only: (a, b), (b, c), ...
RECURSIVE ClusterPairs_chain(_, _, _, _)
ClusterPairs_chain(ids, avg_score, i, j) ==
    IF i >= Len(ids) THEN <<>>
    ELSE <<[id_a |-> ids[i], id_b |-> ids[i + 1], confidence |-> avg_score]>>
            \o ClusterPairs_chain(ids, avg_score, i + 1, i + 2)

\* the first pair of the cluster only
ClusterPairs_first_pair(ids, avg_score, i, j) ==
    <<[id_a |-> ids[i], id_b |-> ids[j], confidence |-> avg_score]>>

\* the inner loops of find_probable_matches over one cluster, from (i, j) on
RECURSIVE ClusterPairs(_, _, _, _)
ClusterPairs(ids, avg_score, i, j) ==
    IF i > Len(ids) THEN <<>>
    ELSE IF j > Len(ids) THEN ClusterPairs(ids, avg_score, i + 1, i + 2)
    ELSE <<[id_a |-> ids[i], id_b |-> ids[j], confidence |-> avg_score]>>
            \o ClusterPairs(ids, avg_score, i, j + 1)

\* find_probable_matches on the clusters model.partition returned
RECURSIVE find_probable_matches(_)
find_probable_matches(clustered) ==
    IF clustered = <<>> THEN <<>>
    ELSE LET c == Head(clustered)
         IN  (IF Len(c.ids) < 2 THEN <<>>
              ELSE ClusterPairs(c.ids, AvgScore(c.scores), 1, 2))
             \o find_probable_matches(Tail(clustered))

\* the clusters find_probable_matches does not skip, each with its ids and
\* its avg_score
RECURSIVE Clusters(_)
Clusters(clustered) ==
    IF clustered = <<>> THEN <<>>
    ELSE LET c == Head(clustered)
         IN  (IF Len(c.ids) < 2 THEN <<>>
              ELSE <<[ids |-> c.ids, avg_score |-> AvgScore(c.scores)]>>)
             \o Clusters(Tail(clustered))

\* the orders in which the ids of S can be listed
Orderings(S) ==
    {q \in [1..Cardinality(S) -> S] : \A i, j \in 1..Cardinality(S) : q[i] = q[j] => i = j}

\* the list q cut into clusters after the positions in cuts, with scores sc
RECURSIVE CutClusters(_, _, _, _)
CutClusters(q, sc, cuts, from) ==
    IF from > Len(q) THEN <<>>
    ELSE LET later == {c \in cuts : c >= from}
             to == IF later = {} THEN Len(q)
                   ELSE CHOOSE c \in later : \A d \in later : c <= d
         IN  <<[ids |-> SubSeq(q, from, to), scores |-> SubSeq(sc, from, to)]>>
                \o CutClusters(q, sc, cuts, to + 1)

\* model.partition(records, threshold=0.5): any partition of the record ids
\* into clusters, in any order, with any member scores
Partitions(S) ==
    LET n == Cardinality(S)
    IN  {CutClusters(q, sc, cuts, 1) :
            q \in Orderings(S), sc \in [1..n -> ScoreSet], cuts \in SUBSET (1..(n - 1))}

\* find_probable_matches is about to be called on some clustering of up to
\* MaxMembers records
InitMatches ==
    /\ entities = {}
    /\ links = {}
    /\ nextId = 1
    /\ nextLink = 1
    /\ committed = EmptyStore
    /\ pc = "matches"
    /\ batch = NoBatch
    /\ call = [op |-> "none", rec |-> NoRec, keep_id |-> None, merge_id |-> None]
    /\ ret = None
    /\ branch = "none"
    /\ hist = NoHist
    /\ companies = {}
    /\ todo = {}
    /\ main = NoMain
    /\ pairs = <<>>
    /\ pass = NoPass
    /\ mergeLog = {}
    /\ procs = <<>>
    /\ resolved = {}
    /\ \E n \in 0..MaxMembers : \E clustered \in Partitions(1..n) :
          fn = [arg |-> clustered, out |-> <<>>, done |-> FALSE]
    /\ metrics = NoMetrics
    /\ bulk = NoBulk

\* matches = find_probable_matches(model, records)
FindProbableMatches ==
    /\ pc = "matches"
    /\ ~fn.done
    /\ fn' = [fn EXCEPT !.out = find_probable_matches(fn.arg), !.done = TRUE]
    /\ UNCHANGED <<committed, pc, batch, metrics>>
    /\ UNCHANGED storeVars
    /\ UNCHANGED callVars
    /\ UNCHANGED mainVars
    /\ UNCHANGED raceVars
    /\ UNCHANGED bulkVars

NextMatches == FindProbableMatches

SpecMatches == InitMatches /\ [][NextMatches]_vars

----------------------------------------------------------------------------
(* The command-line driver: scripts/run_entity_resolution.py main() *)

\* a connection in autocommit mode: every statement is durable at once
AfterStatement_autocommit(c, E, L) == [entities |-> E, links |-> L]

\* psycopg connections are opened without autocommit: a statement leaves the
\* durable rows c as they are until conn.commit()
AfterStatement(c, E, L) == c

\* SELECT ... FROM companies c LEFT JOIN entity_links el ... WHERE el.id IS NULL
UnlinkedRecords(C, L) ==
    {r \in C : ~HasLink(L, r.source, r.source_identifier)}

\* tables of companies: one row per (source, id)
CompanyTables ==
    {C \in SUBSET Records : \A r1, r2 \in C : SameKey(r1, r2) => r1 = r2}

InitMain ==
    /\ entities = {}
    /\ links = {}
    /\ nextId = 1
    /\ nextLink = 1
    /\ committed = EmptyStore
    /\ pc = "closed"
    /\ batch = NoBatch
    /\ call = [op |-> "none", rec |-> NoRec, keep_id |-> None, merge_id |-> None]
    /\ ret = None
    /\ branch = "none"
    /\ hist = NoHist
    /\ companies \in {C \in CompanyTables : Cardinality(C) = 3}
    /\ todo = {}
    /\ main = NoMain
    /\ pairs = <<>>
    /\ pass = NoPass
    /\ mergeLog = {}
    /\ procs = <<>>
    /\ resolved = {}
    /\ fn = NoFn
    /\ metrics = NoMetrics
    /\ bulk = NoBulk

\* main() opens a connection and reads the unlinked records; bulks are the
\* values of --bulk the run may be given
MainStartWith(bulks) ==
    /\ pc = "closed"
    /\ main.runs < MaxRuns
    /\ \E use_bulk \in bulks, run_probabilistic \in BOOLEAN :
          main' = [runs |-> main.runs + 1, bulk |-> use_bulk,
                   run_probabilistic |-> run_probabilistic, failedAt |-> "none"]
    /\ LET records == UnlinkedRecords(companies, links)
       IN  /\ todo' = records
           /\ batch' = [left |-> Cardinality(records), matched |-> 0, created |-> 0,
                        total |-> Cardinality(records), base |-> Cardinality(entities)]
           /\ pc' = IF records # {} THEN (IF main'.bulk THEN "main_bulk" ELSE "deterministic")
                    ELSE IF main'.run_probabilistic THEN "pass" ELSE "close"
    /\ UNCHANGED <<committed, companies, pairs, pass, mergeLog>>
    /\ UNCHANGED storeVars
    /\ UNCHANGED callVars
    /\ UNCHANGED raceVars
    /\ UNCHANGED fnVars
    /\ UNCHANGED bulkVars

\* a run without --bulk
MainStart == MainStartWith({FALSE})

\* a run with --bulk
MainStartBulk == MainStartWith({TRUE})

\* one iteration of run_entity_resolution on the driver's records
MainResolve ==
    /\ pc = "deterministic"
    /\ todo # {}
    /\ \E rec \in todo :
          /\ Classify(rec)
          /\ DoResolve(rec)
          /\ todo' = todo \ {rec}
    /\ committed' = AfterStatement(committed, entities', links')
    /\ UNCHANGED <<pc, companies, main, pairs, pass, mergeLog>>
    /\ UNCHANGED raceVars
    /\ UNCHANGED fnVars
    /\ UNCHANGED bulkVars

\* bulk_create_entities on the driver's records, which fit one slice of the
\* default batch_size: the pre-check and the two multi-row INSERTs.  The rows
\* are taken in one order: another order only hands the uuids out differently
MainBulk ==
    /\ pc = "main_bulk"
    /\ todo # {}
    /\ \E slice \in {CHOOSE q \in Orderings(todo) : TRUE} :
          LET existing == ExistingKeys(links, slice)
              new_records == NewRecords(slice, existing)
              rows == BulkRows(new_records, nextId, nextLink)
          IN  /\ entities' = BulkInsertEntities(entities, rows)
              /\ links' = BulkInsertLinks(links, rows)
              /\ nextId' = nextId + Len(rows)
              /\ nextLink' = nextLink + Len(rows)
              /\ batch' = [batch EXCEPT !.left = 0, !.created = Len(rows)]
    /\ todo' = {}
    /\ committed' = AfterStatement(committed, entities', links')
    /\ UNCHANGED <<pc, companies, main, pairs, pass, mergeLog>>
    /\ UNCHANGED callVars
    /\ UNCHANGED raceVars
    /\ UNCHANGED fnVars
    /\ UNCHANGED bulkVars

\* the conn.commit() that ends bulk_create_entities
MainBulkCommit ==
    /\ pc = "main_bulk"
    /\ todo = {}
    /\ committed' = [entities |-> entities, links |-> links]
    /\ pc' = "deterministic"
    /\ UNCHANGED <<batch, companies, todo, main, pairs, pass, mergeLog>>
    /\ UNCHANGED storeVars
    /\ UNCHANGED callVars
    /\ UNCHANGED raceVars
    /\ UNCHANGED fnVars
    /\ UNCHANGED bulkVars

\* the driver going on to the next phase without its conn.commit()
MainCommitDeterministic_nocommit ==
    /\ pc = "deterministic"
    /\ todo = {}
    /\ pc' = IF main.run_probabilistic THEN "pass" ELSE "close"
    /\ UNCHANGED <<committed, batch, companies, todo, main, pairs, pass, mergeLog>>
    /\ UNCHANGED storeVars
    /\ UNCHANGED callVars
    /\ UNCHANGED raceVars
    /\ UNCHANGED fnVars
    /\ UNCHANGED bulkVars

\* run_entity_resolution returned: conn.commit()
MainCommitDeterministic ==
    /\ pc = "deterministic"
    /\ todo = {}
    /\ committed' = [entities |-> entities, links |-> links]
    /\ pc' = IF main.run_probabilistic THEN "pass" ELSE "close"
    /\ UNCHANGED <<batch, companies, todo, main, pairs, pass, mergeLog>>
    /\ UNCHANGED storeVars
    /\ UNCHANGED callVars
    /\ UNCHANGED raceVars
    /\ UNCHANGED fnVars
    /\ UNCHANGED bulkVars

\* run_probabilistic_pass up to the merge loop: build_training_pairs,
\* train_dedupe_model, find_probable_matches
PassStart ==
    /\ pc = "pass"
    /\ IF Cardinality(entities) < 2
       THEN /\ pairs' = <<>>
            /\ pass' = NoPass
            /\ pc' = "commit_pass"
       ELSE \E clustered \in Partitions(EntityIds(entities)) :
               LET matches == find_probable_matches(clustered)
               IN  /\ pairs' = matches
                   /\ pass' = [pairs_found |-> Len(matches), merged |-> 0,
                               below_threshold |-> 0, clusters |-> Clusters(clustered)]
                   /\ pc' = "loop"
    /\ UNCHANGED <<committed, batch, companies, todo, main, mergeLog>>
    /\ UNCHANGED storeVars
    /\ UNCHANGED callVars
    /\ UNCHANGED raceVars
    /\ UNCHANGED fnVars
    /\ UNCHANGED bulkVars

\* a match below the threshold is counted and left alone
PassBelow ==
    /\ pc = "loop"
    /\ pairs # <<>>
    /\ ~AtLeastThreshold(Head(pairs).confidence)
    /\ pass' = [pass EXCEPT !.below_threshold = @ + 1]
    /\ pairs' = Tail(pairs)
    /\ UNCHANGED <<committed, pc, batch, companies, todo, main, mergeLog>>
    /\ UNCHANGED storeVars
    /\ UNCHANGED callVars
    /\ UNCHANGED raceVars
    /\ UNCHANGED fnVars
    /\ UNCHANGED bulkVars

\* merge_entities, first statement: the UPDATE of entity_links
PassMergeUpdate ==
    /\ pc = "loop"
    /\ pairs # <<>>
    /\ AtLeastThreshold(Head(pairs).confidence)
    /\ LET keep_id == Head(pairs).id_a
           merge_id == Head(pairs).id_b
       IN  /\ links' = UpdateLinks(links, keep_id, merge_id)
           /\ mergeLog' = mergeLog \cup
                  {[keep_id |-> keep_id, merge_id |-> merge_id,
                    moved |-> {l.id : l \in LinksOf(links, merge_id)}]}
    /\ committed' = AfterStatement(committed, entities, links')
    /\ pc' = "merge_delete"
    /\ UNCHANGED <<entities, nextId, nextLink, batch, companies, todo, main, pairs, pass>>
    /\ UNCHANGED callVars
    /\ UNCHANGED raceVars
    /\ UNCHANGED fnVars
    /\ UNCHANGED bulkVars

\* a loop that counts a merge only when the DELETE removed a row
PassMergeDelete_rows ==
    /\ pc = "merge_delete"
    /\ entities' = DeleteEntity(entities, Head(pairs).id_b)
    /\ committed' = AfterStatement(committed, entities', links)
    /\ pass' = [pass EXCEPT !.merged = IF entities' # entities THEN @ + 1 ELSE @]
    /\ pairs' = Tail(pairs)
    /\ pc' = "loop"
    /\ UNCHANGED <<links, nextId, nextLink, batch, companies, todo, main, mergeLog>>
    /\ UNCHANGED callVars
    /\ UNCHANGED raceVars
    /\ UNCHANGED fnVars
    /\ UNCHANGED bulkVars

\* merge_entities, second statement: the DELETE of the canonical_entities row
PassMergeDelete ==
    /\ pc = "merge_delete"
    /\ entities' = DeleteEntity(entities, Head(pairs).id_b)
    /\ committed' = AfterStatement(committed, entities', links)
    /\ pass' = [pass EXCEPT !.merged = @ + 1]
    /\ pairs' = Tail(pairs)
    /\ pc' = "loop"
    /\ UNCHANGED <<links, nextId, nextLink, batch, companies, todo, main, mergeLog>>
    /\ UNCHANGED callVars
    /\ UNCHANGED raceVars
    /\ UNCHANGED fnVars
    /\ UNCHANGED bulkVars

\* the loop is over: run_probabilistic_pass returns its counters
PassReturn ==
    /\ pc = "loop"
    /\ pairs = <<>>
    /\ pc' = "commit_pass"
    /\ UNCHANGED <<committed, batch, companies, todo, main, pairs, pass, mergeLog>>
    /\ UNCHANGED storeVars
    /\ UNCHANGED callVars
    /\ UNCHANGED raceVars
    /\ UNCHANGED fnVars
    /\ UNCHANGED bulkVars

\* conn.commit() after run_probabilistic_pass
MainCommitPass ==
    /\ pc = "commit_pass"
    /\ committed' = [entities |-> entities, links |-> links]
    /\ pc' = "close"
    /\ pass' = [pass EXCEPT !.clusters = <<>>]
    /\ UNCHANGED <<batch, companies, todo, main, pairs, mergeLog>>
    /\ UNCHANGED storeVars
    /\ UNCHANGED callVars
    /\ UNCHANGED raceVars
    /\ UNCHANGED fnVars
    /\ UNCHANGED bulkVars

\* finally: conn.close() at the end of a run that raised nothing
MainClose ==
    /\ pc = "close"
    /\ pc' = "closed"
    /\ entities' = committed.entities
    /\ links' = committed.links
    /\ todo' = {}
    /\ pairs' = <<>>
    /\ UNCHANGED <<nextId, nextLink, committed, batch, companies, main, pass, mergeLog>>
    /\ UNCHANGED callVars
    /\ UNCHANGED raceVars
    /\ UNCHANGED fnVars
    /\ UNCHANGED bulkVars

\* a loop that catches the exception of a record, notes it and goes on
MainFail_counted ==
    /\ pc = "deterministic"
    /\ todo # {}
    /\ \E rec \in todo : todo' = todo \ {rec}
    /\ batch' = [batch EXCEPT !.left = @ - 1]
    /\ main' = [main EXCEPT !.failedAt = pc]
    /\ UNCHANGED <<committed, pc, companies, pairs, pass, mergeLog>>
    /\ UNCHANGED storeVars
    /\ UNCHANGED callVars
    /\ UNCHANGED raceVars
    /\ UNCHANGED fnVars
    /\ UNCHANGED bulkVars

\* a statement raises (storage failure, unloadable model): the exception
\* leaves main() through finally: conn.close(), and the rows written since
\* the last commit are discarded
MainFail ==
    /\ pc \in {"main_bulk", "deterministic", "pass", "loop", "merge_delete", "commit_pass"}
    /\ main' = [main EXCEPT !.failedAt = pc]
    /\ pc' = "closed"
    /\ entities' = committed.entities
    /\ links' = committed.links
    /\ todo' = {}
    /\ pairs' = <<>>
    /\ resolved' = {r \in resolved : HasLink(committed.links, r.source, r.source_identifier)}
    /\ pass' = [pass EXCEPT !.clusters = <<>>]
    /\ UNCHANGED <<nextId, nextLink, committed, batch, companies, mergeLog>>
    /\ UNCHANGED <<call, ret, branch, hist>>
    /\ UNCHANGED raceVars
    /\ UNCHANGED fnVars
    /\ UNCHANGED bulkVars

NextMain ==
    \/ MainStart \/ MainResolve \/ MainCommitDeterministic
    \/ PassStart \/ PassBelow \/ PassMergeUpdate \/ PassMergeDelete \/ PassReturn
    \/ MainCommitPass \/ MainClose \/ MainFail

SpecMain == InitMain /\ [][NextMain]_vars

\* the driver run with --bulk
NextMainBulk ==
    \/ MainStartBulk \/ MainBulk \/ MainBulkCommit \/ MainCommitDeterministic
    \/ PassStart \/ PassBelow \/ PassMergeUpdate \/ PassMergeDelete \/ PassReturn
    \/ MainCommitPass \/ MainClose \/ MainFail

SpecMainBulk == InitMain /\ [][NextMainBulk]_vars

----------------------------------------------------------------------------
(* Two resolver processes, each calling resolve_entity once on its own      *)
(* connection against the shared store.  A statement sees the committed     *)
(* rows and the rows its own transaction has inserted.                      *)

Procs == {1, 2}

Other(p) == CHOOSE q \in Procs : q # p

ViewEntities(p) == committed.entities \cup procs[p].entities

ViewLinks(p) == committed.links \cup procs[p].links

InitRace ==
    /\ entities = {}
    /\ links = {}
    /\ nextId = 1
    /\ nextLink = 1
    /\ committed = EmptyStore
    /\ pc = "race"
    /\ batch = NoBatch
    /\ call = [op |-> "none", rec |-> NoRec, keep_id |-> None, merge_id |-> None]
    /\ ret = None
    /\ branch = "none"
    /\ hist = NoHist
    /\ companies = {}
    /\ todo = {}
    /\ main = NoMain
    /\ pairs = <<>>
    /\ pass = NoPass
    /\ mergeLog = {}
    /\ resolved = {}
    /\ fn = NoFn
    /\ metrics = NoMetrics
    /\ bulk = NoBulk
    /\ \E r1, r2 \in Records :
          procs = [p \in Procs |->
                     [rec |-> IF p = 1 THEN r1 ELSE r2, pc |-> "source_id",
                      entity_id |-> None, branch |-> "none",
                      entities |-> {}, links |-> {}, raced |-> FALSE]]

raceFrame == <<entities, links, pc, batch, call, ret, branch, hist,
               companies, todo, main, pairs, pass, mergeLog, resolved, fn, bulk, metrics>>

\* step 1 of resolve_entity: match_by_source_id
RaceLookupSource(p) ==
    /\ procs[p].pc = "source_id"
    /\ \E id \in match_by_source_id(ViewLinks(p), procs[p].rec.source,
                                     procs[p].rec.source_identifier) :
          procs' = [procs EXCEPT ![p] =
                      IF id # None
                      THEN [@ EXCEPT !.pc = "done", !.entity_id = id, !.branch = "source_id"]
                      ELSE [@ EXCEPT !.pc = "name"]]
    /\ UNCHANGED <<nextId, nextLink, committed>>
    /\ UNCHANGED raceFrame

\* step 2 of resolve_entity: match_by_legal_name
RaceLookupName(p) ==
    /\ procs[p].pc = "name"
    /\ \E id \in match_by_legal_name(ViewEntities(p), procs[p].rec.name,
                                      procs[p].rec.country) :
          procs' = [procs EXCEPT ![p] =
                      IF id # None
                      THEN [@ EXCEPT !.pc = "link", !.entity_id = id, !.branch = "name"]
                      ELSE [@ EXCEPT !.pc = "create",
                                     !.raced = procs[Other(p)].pc \in
                                                  {"source_id", "name", "create"}]]
    /\ UNCHANGED <<nextId, nextLink, committed>>
    /\ UNCHANGED raceFrame

\* step 3 of resolve_entity: create_canonical_entity
RaceCreate(p) ==
    /\ procs[p].pc = "create"
    /\ procs' = [procs EXCEPT ![p] =
                    [@ EXCEPT !.pc = "link", !.entity_id = nextId, !.branch = "create",
                              !.entities = create_canonical_entity(
                                              ViewEntities(p), nextId, procs[p].rec.name,
                                              procs[p].rec.country) \ committed.entities]]
    /\ nextId' = nextId + 1
    /\ UNCHANGED <<nextLink, committed>>
    /\ UNCHANGED raceFrame

\* link_entity, after a name match or a creation
RaceLink(p) ==
    /\ procs[p].pc = "link"
    /\ LET r == procs[p].rec
           byName == procs[p].branch = "name"
       IN  procs' = [procs EXCEPT ![p] =
                       [@ EXCEPT !.pc = "commit",
                                 !.links = link_entity(
                                     ViewLinks(p), nextLink, procs[p].entity_id, r.source,
                                     r.source_identifier, IF byName THEN 90 ELSE 100,
                                     IF byName THEN "deterministic" ELSE "exact_id",
                                     r.name) \ committed.links]]
    /\ nextLink' = nextLink + 1
    /\ UNCHANGED <<nextId, committed>>
    /\ UNCHANGED raceFrame

\* the caller's conn.commit()
RaceCommit(p) ==
    /\ procs[p].pc = "commit"
    /\ committed' = [entities |-> ViewEntities(p), links |-> ViewLinks(p)]
    /\ procs' = [procs EXCEPT ![p] = [@ EXCEPT !.pc = "done", !.entities = {}, !.links = {}]]
    /\ UNCHANGED <<nextId, nextLink>>
    /\ UNCHANGED raceFrame

NextRace ==
    \E p \in Procs :
        \/ RaceLookupSource(p) \/ RaceLookupName(p) \/ RaceCreate(p)
        \/ RaceLink(p) \/ RaceCommit(p)

SpecRace == InitRace /\ [][NextRace]_vars

----------------------------------------------------------------------------
(* Properties of the single-writer calls *)

\* the step just taken is a resolve_entity call (direct or from the batch loop)
IsResolveStep == call'.op = "resolve_entity" /\ pc' = pc

\* the step just taken is a merge_entities call
IsMergeStep == call'.op = "merge_entities" /\ pc' = pc

\* C1: no two entity_links rows share the same (source, source_identifier)
\* pair, whatever resolve_entity, run_entity_resolution and merge_entities
\* calls a single writer has made on an empty store.
LinkUniqueness ==
    \A l1, l2 \in links : SameKey(l1, l2) => l1 = l2

\* every source record is linked, some to an entity that absorbed another
LinkUniquenessWitness ==
    /\ Cardinality(links) = 3
    /\ call.op = "merge_entities"
    /\ hist.mergeLinks > 0

\* C2: at most one canonical entity exists for each (normalized name,
\* lower-cased country) pair under single-writer calls.
EntityUniqueness ==
    \A e1, e2 \in entities :
        (e1.primary_name = e2.primary_name /\ e1.country = e2.country) => e1 = e2

\* a record was linked to an existing entity by name instead of creating a second one
EntityUniquenessWitness ==
    /\ call.op = "resolve_entity"
    /\ branch = "name"
    /\ \E e1, e2 \in entities :
          e1.primary_name = e2.primary_name /\ e1.country # e2.country
    /\ \E l \in links : SameKey(l, call.rec) /\ l.match_method = "deterministic"

\* C3: resolving the same (source, source_identifier) twice in a row returns
\* the same entity_id, and the second call leaves entities and links unchanged.
ResolveStable ==
    [][ ( /\ IsResolveStep
          /\ call.op = "resolve_entity"
          /\ SameKey(call.rec, call'.rec) )
        => ( /\ ret' = ret
             /\ entities' = entities
             /\ links' = links ) ]_vars

\* the second of two consecutive calls for one source record has returned
ResolveStableWitness ==
    /\ call.op = "resolve_entity"
    /\ hist.repeat
    /\ branch = "source_id"
    /\ ret \in EntityIds(entities)

\* C4: merging two distinct existing entities moves every link of merge_id
\* to keep_id, keep_id ends with the sum of the two link counts (3 + 2 gives
\* 5), the merge_id row is gone, and resolving a record formerly linked to
\* merge_id returns keep_id.
MergeResult ==
    [][ ( /\ IsMergeStep
          /\ call'.keep_id \in EntityIds(entities)
          /\ call'.merge_id \in EntityIds(entities) )
        => LET k == call'.keep_id
               m == call'.merge_id
           IN  /\ \A l \in LinksOf(links, m) : [l EXCEPT !.entity_id = k] \in links'
               /\ LinksOf(links', m) = {}
               /\ Cardinality(LinksOf(links', k)) =
                      Cardinality(LinksOf(links, k)) + Cardinality(LinksOf(links, m))
               /\ m \notin EntityIds(entities')
               /\ k \in EntityIds(entities')
               /\ \A l \in LinksOf(links, m) : \A rec \in Records \cup FiveRecords :
                     SameKey(rec, l) =>
                        \A out \in resolve_entity(entities', links', nextId', nextLink', rec) :
                            out.ret = k /\ out.branch = "source_id" ]_vars

\* an entity with three links has absorbed an entity with two links
MergeResultWitness ==
    /\ call.op = "merge_entities"
    /\ hist.mergeExisted
    /\ hist.keepLinks = 3
    /\ hist.mergeLinks = 2
    /\ Cardinality(LinksOf(links, call.keep_id)) = 5
    /\ EntityIds(entities) = {call.keep_id}

\* C6: merge_entities on a merge_id that was already merged away reassigns
\* no link, deletes no row and leaves both tables as they were.
RepeatedMergeNoOp ==
    [][ ( /\ IsMergeStep
          /\ call'.merge_id \notin EntityIds(entities) )
        => ( /\ LinksOf(links, call'.merge_id) = {}
             /\ entities' = entities
             /\ links' = links ) ]_vars

\* an entity already merged away was merged again into an entity that holds
\* links, with other entities in the store
RepeatedMergeNoOpWitness ==
    /\ call.op = "merge_entities"
    /\ ~hist.mergeExisted
    /\ hist.keepLinks >= 2
    /\ call.keep_id \in EntityIds(entities)
    /\ Cardinality(entities) >= 2

\* C5: merge is atomic in the durable rows: for every merge started, either
\* the merge_id row is gone and no link points at merge_id any more, or the
\* row is still there and every link the UPDATE moved still points at it.
MergeAtomic ==
    \A m \in mergeLog :
        LET gone == m.merge_id \notin EntityIds(committed.entities)
        IN  \/ /\ gone
               /\ LinksOf(committed.links, m.merge_id) = {}
            \/ /\ ~gone
               /\ \A l \in committed.links : l.id \in m.moved => l.entity_id = m.merge_id

\* a run failed between the UPDATE and the DELETE of a merge that moved links,
\* and the durable rows still hold the entity with its links
MergeAtomicWitness ==
    /\ pc = "closed"
    /\ main.failedAt = "merge_delete"
    /\ \E m \in mergeLog :
          /\ m.moved # {}
          /\ m.merge_id \in EntityIds(committed.entities)
          /\ m.keep_id \in EntityIds(committed.entities)
          /\ {l.id : l \in LinksOf(committed.links, m.merge_id)} = m.moved
          /\ entities = committed.entities
          /\ links = committed.links

\* C7: lookup-then-create race: when two concurrent resolvers of the same
\* new company (different source records) have both observed "no match",
\* each has created its own entity, and two canonical entities with the same
\* (normalized name, country) exist once both have committed.
RaceDuplicates ==
    ( /\ \A p \in Procs : procs[p].pc = "done" /\ procs[p].branch = "create"
      /\ ~SameKey(procs[1].rec, procs[2].rec)
      /\ SameCompany(procs[1].rec, procs[2].rec) )
    => \E e1, e2 \in committed.entities :
          /\ e1.id = procs[1].entity_id
          /\ e2.id = procs[2].entity_id
          /\ e1.id # e2.id
          /\ e1.primary_name = e2.primary_name
          /\ e1.country = e2.country

\* both resolvers looked up before either had inserted, and the store now
\* holds two entities for the one company
RaceDuplicatesWitness ==
    /\ \A p \in Procs : /\ procs[p].pc = "done"
                         /\ procs[p].branch = "create"
                         /\ procs[p].raced
    /\ ~SameKey(procs[1].rec, procs[2].rec)
    /\ SameCompany(procs[1].rec, procs[2].rec)
    /\ \E e1, e2 \in committed.entities :
          /\ e1.id # e2.id
          /\ e1.primary_name = e2.primary_name
          /\ e1.country = e2.country
    /\ Cardinality(committed.links) = 2

\* C8: first success wins: an existing link for (source, source_identifier)
\* decides the result even when name and country match another entity; the
\* name lookup decides only when there is no such link; an entity is created
\* only when both lookups miss.
ResolutionOrder ==
    [][ IsResolveStep =>
        LET rec == call'.rec
            linked == {l \in links : SameKey(l, rec)}
            named == {e \in entities :
                         /\ e.primary_name = Normalize(rec.name)
                         /\ e.country = LowerCountry(rec.country)}
        IN  /\ linked # {} => /\ ret' \in {l.entity_id : l \in linked}
                               /\ entities' = entities /\ links' = links
            /\ (linked = {} /\ named # {}) =>
                   /\ ret' \in EntityIds(named)
                   /\ entities' = entities
            /\ entities' # entities => (linked = {} /\ named = {}) ]_vars

\* a link decided the result although the name matched a different entity
ResolutionOrderWitness ==
    /\ call.op = "resolve_entity"
    /\ branch = "source_id"
    /\ hist.byName # {None}
    /\ ret \notin hist.byName

\* C9: two records with different keys, names that normalize identically and
\* countries equal ignoring case, resolved one after the other into a store
\* holding neither: both calls return the same entity_id, the second creates
\* no entity, and its link has match_method deterministic and confidence 90.
NameMatchLinks ==
    [][ ( /\ IsResolveStep
          /\ call.op = "resolve_entity"
          /\ branch # "source_id"
          /\ ~SameKey(call.rec, call'.rec)
          /\ SameCompany(call.rec, call'.rec)
          /\ ~HasLink(links, call'.rec.source, call'.rec.source_identifier) )
        => ( /\ ret' = ret
             /\ entities' = entities
             /\ links \subseteq links'
             /\ Cardinality(links' \ links) = 1
             /\ \A l \in links' \ links :
                   /\ SameKey(l, call'.rec)
                   /\ l.entity_id = ret
                   /\ l.match_method = "deterministic"
                   /\ l.confidence = 90 ) ]_vars

\* the second record, differing in spelling and in the case of its country,
\* was linked to the entity the first record created
NameMatchLinksWitness ==
    /\ call.op = "resolve_entity"
    /\ hist.sameCompany
    /\ branch = "name"
    /\ \E l \in links : /\ l.entity_id = ret /\ l.match_method = "exact_id"
                         /\ l.source_name # call.rec.name
    /\ \E e \in entities : e.id = ret /\ e.country # call.rec.country

\* C10: when resolve_entity creates an entity it creates exactly one, stored
\* with the normalized name and lower-cased country, and exactly one link to
\* it with match_method exact_id and confidence 100.
NewEntityLink ==
    [][ (IsResolveStep /\ entities' # entities) =>
        LET rec == call'.rec
        IN  /\ ret' \notin EntityIds(entities)
            /\ entities' = entities \cup
                   {[id |-> ret', primary_name |-> Normalize(rec.name),
                     country |-> LowerCountry(rec.country)]}
            /\ links \subseteq links'
            /\ Cardinality(links' \ links) = 1
            /\ \A l \in links' \ links :
                  /\ SameKey(l, rec)
                  /\ l.entity_id = ret'
                  /\ l.source_name = rec.name
                  /\ l.match_method = "exact_id"
                  /\ l.confidence = 100 ]_vars

\* an entity was created from a name that normalization changes
NewEntityLinkWitness ==
    /\ call.op = "resolve_entity"
    /\ branch = "create"
    /\ \E e \in entities : /\ e.id = ret
                            /\ e.primary_name # call.rec.name
                            /\ e.country # call.rec.country
    /\ Cardinality(LinksOf(links, ret)) = 1

\* the entities the link rows of record r's (source, source_identifier) point to
EntitiesOf(r) ==
    {l.entity_id : l \in {k \in links : k.source = r.source
                                       /\ k.source_identifier = r.source_identifier}}

\* C11 as stated: two resolved records of one source with different
\* source_identifier values are on two distinct entities whenever no merge was run
SameSourceDistinct ==
    \A a, b \in resolved :
        (a.source = b.source /\ a.source_identifier # b.source_identifier)
            => EntitiesOf(a) \cap EntitiesOf(b) = {}

\* C11: with no merge run, two records of one source with different
\* source_identifier values, neither linked before, are on two distinct entities
\* exactly when their normalized names or their lower-cased countries differ;
\* when both agree the second is linked to the entity of the first
SameSourceResolution ==
    \A a, b \in resolved :
        (a.source = b.source /\ a.source_identifier # b.source_identifier)
            => IF SameCompany(a, b)
               THEN EntitiesOf(a) = EntitiesOf(b) /\ Cardinality(EntitiesOf(a)) = 1
               ELSE EntitiesOf(a) \cap EntitiesOf(b) = {}

SameSourceResolutionWitness ==
    /\ Rec(NameAbLtd, "GB", "registry", "001") \in resolved
    /\ Rec(NameAbPunct, "GB", "registry", "002") \in resolved
    /\ \E l1, l2 \in links :
          /\ l1.source_identifier = "001" /\ l1.match_method = "exact_id"
          /\ l2.source_identifier = "002" /\ l2.match_method = "deterministic"
          /\ l1.entity_id = l2.entity_id

\* C12: with no merge run, two records, neither linked before, whose names
\* normalize identically and whose lower-cased countries differ are never on
\* the same entity
CountryBlocksNameMatch ==
    \A a, b \in resolved :
        (Normalize(a.name) = Normalize(b.name)
         /\ LowerCountry(a.country) # LowerCountry(b.country))
            => EntitiesOf(a) \cap EntitiesOf(b) = {}

CountryBlocksNameMatchWitness ==
    /\ call.op = "resolve_entity"
    /\ branch = "create"
    /\ call.rec \in resolved
    /\ \E a \in resolved :
          /\ Normalize(a.name) = Normalize(call.rec.name)
          /\ LowerCountry(a.country) # LowerCountry(call.rec.country)
          /\ EntitiesOf(a) # {} /\ EntitiesOf(a) \cap EntitiesOf(call.rec) = {}
          /\ \E e \in entities : e.id = ret /\ e.country = LowerCountry(call.rec.country)

\* a step in which a statement of the driver's phase at pcs raises
RaisesIn(pcs) == pc \in pcs /\ main.failedAt = "none" /\ main'.failedAt = pc

\* C13 as stated: when resolving a record of the batch raises, the batch goes
\* on to its later records
FailingRecordSkipped ==
    [][(RaisesIn({"deterministic"}) /\ todo # {}) => (pc' = "deterministic" /\ todo' # {})]_vars

\* C13: when resolving a record of the batch raises, the error leaves
\* run_entity_resolution uncounted: the batch ends there, none of the records
\* still to come is resolved and no counters are returned
FailingRecordAborts ==
    [][(RaisesIn({"deterministic"}) /\ todo # {})
          => /\ pc' = "closed"
             /\ todo' = {}
             /\ batch' = batch
             /\ call' = call /\ ret' = ret
             /\ \A r \in todo : ~HasLink(links', r.source, r.source_identifier)]_vars

FailingRecordAbortsWitness ==
    /\ pc = "closed"
    /\ main.failedAt = "deterministic"
    /\ batch.total = 3 /\ batch.left = 1
    /\ Cardinality(UnlinkedRecords(companies, links)) = 3

\* C14 as stated: when a statement raises while the k-th record of the batch
\* is resolved, the rows written for the earlier records are durable
PriorWorkCommitted ==
    [][(RaisesIn({"deterministic"}) /\ todo # {})
          => (entities \subseteq committed'.entities /\ links \subseteq committed'.links)]_vars

\* the positions of the driver inside run_probabilistic_pass and its commit
PassPcs == {"pass", "loop", "merge_delete", "commit_pass"}

\* C15: the probabilistic pass starts only after every record of the batch is
\* resolved and the rows are committed, and an error raised anywhere in the
\* pass ends the run with exactly those committed rows, every company linked
PhaseIsolation ==
    /\ [](pc \in PassPcs => (todo = {} /\ main.run_probabilistic))
    /\ [](pc = "pass" => committed = [entities |-> entities, links |-> links])
    /\ [][RaisesIn(PassPcs)
            => /\ pc' = "closed"
               /\ committed' = committed
               /\ entities' = committed.entities /\ links' = committed.links
               /\ \A r \in companies :
                     HasLink(committed'.links, r.source, r.source_identifier)]_vars

PhaseIsolationWitness ==
    /\ pc = "closed"
    /\ main.failedAt = "pass"
    /\ main.runs = 1
    /\ batch.total = 3 /\ batch.left = 0
    /\ Cardinality(committed.links) = 3
    /\ committed.entities = entities /\ entities # {}

\* C16: in the loop of run_probabilistic_pass the match at hand is merged
\* (id_b into id_a, merged counted) when its confidence is 0.85 or more and
\* is otherwise counted as below threshold with no row touched; at every
\* point pairs_found = merged + below_threshold + matches still to go, so the
\* returned counters satisfy pairs_found = merged + below_threshold
ThresholdRule ==
    /\ [][(pc = "loop" /\ pairs # <<>> /\ pc' # "closed")
            => LET h == Head(pairs)
               IN  IF h.confidence.sum >= 85 * h.confidence.n
                   THEN /\ pc' = "merge_delete"
                        /\ links' = UpdateLinks(links, h.id_a, h.id_b)
                        /\ pairs' = pairs /\ pass' = pass
                   ELSE /\ pc' = "loop"
                        /\ pairs' = Tail(pairs)
                        /\ pass' = [pass EXCEPT !.below_threshold = @ + 1]
                        /\ entities' = entities /\ links' = links]_vars
    /\ [][(pc = "merge_delete" /\ pc' # "closed")
            => LET h == Head(pairs)
               IN  /\ h.confidence.sum >= 85 * h.confidence.n
                   /\ entities' = DeleteEntity(entities, h.id_b)
                   /\ pairs' = Tail(pairs)
                   /\ pass' = [pass EXCEPT !.merged = @ + 1]]_vars
    /\ [](pc \in {"loop", "merge_delete"}
            => pass.pairs_found = pass.merged + pass.below_threshold + Len(pairs))
    /\ [](pc = "commit_pass" => pass.pairs_found = pass.merged + pass.below_threshold)

\* a match whose confidence is exactly 0.85 is being merged
ThresholdRuleWitness ==
    /\ pc = "merge_delete"
    /\ Head(pairs).confidence = [sum |-> 170, n |-> 2]
    /\ LinksOf(links, Head(pairs).id_b) = {}
    /\ LinksOf(links, Head(pairs).id_a) # {}
    /\ Head(pairs).id_b \in EntityIds(entities)

\* C17: find_probable_matches emits, for each cluster of n members, the
\* n(n-1)/2 unordered pairs of its members (none when n < 2), each exactly
\* once and nothing else, every pair with the mean of the cluster's scores
PairwiseEmission ==
    fn.done =>
        LET clustered == fn.arg
            out == fn.out
            Emitted(a, b) == {p \in 1..Len(out) : {out[p].id_a, out[p].id_b} = {a, b}}
        IN  /\ Len(out) = SumSeq([k \in 1..Len(clustered) |->
                                    (Len(clustered[k].ids) * (Len(clustered[k].ids) - 1)) \div 2])
            /\ \A k \in 1..Len(clustered) :
                  LET ids == clustered[k].ids
                      scores == clustered[k].scores
                  IN  \A i, j \in 1..Len(ids) :
                         i < j =>
                           /\ Cardinality(Emitted(ids[i], ids[j])) = 1
                           /\ \A p \in Emitted(ids[i], ids[j]) :
                                 /\ out[p].confidence.n > 0
                                 /\ out[p].confidence.sum * Len(scores)
                                       = SumSeq(scores) * out[p].confidence.n
            /\ \A p \in 1..Len(out) :
                  /\ out[p].id_a # out[p].id_b
                  /\ \E k \in 1..Len(clustered) :
                        \E i, j \in 1..Len(clustered[k].ids) :
                           out[p].id_a = clustered[k].ids[i] /\ out[p].id_b = clustered[k].ids[j]

\* a cluster of three members with unequal scores gave three pairs
PairwiseEmissionWitness ==
    /\ fn.done
    /\ Len(fn.arg) = 1
    /\ Len(fn.arg[1].ids) = 3
    /\ Len(fn.out) = 3
    /\ fn.out[1].confidence = [sum |-> 260, n |-> 3]

\* C18: every iteration of run_entity_resolution resolves one record and
\* counts it as created exactly when the call inserted an entity row, as
\* matched exactly when it found a link or a name match; the call returns
\* matched + created = total = the number of records, with created the number
\* of entity rows added since it was entered; an empty batch returns zeros
\* and no step of the call other than a resolve_entity writes a row
BatchCounters ==
    /\ [](pc = "batch" => batch.matched + batch.created + batch.left = batch.total)
    /\ [][(pc = "batch" /\ pc' = "batch")
            => /\ call'.op = "resolve_entity"
               /\ batch'.left = batch.left - 1
               /\ batch'.total = batch.total
               /\ entities \subseteq entities'
               /\ batch'.created - batch.created = Cardinality(entities' \ entities)
               /\ batch'.matched - batch.matched =
                     IF branch' \in {"source_id", "name"} THEN 1 ELSE 0]_vars
    /\ [][(pc = "batch" /\ pc' = "idle")
            => /\ batch.left = 0
               /\ ret' = [matched |-> batch.matched, created |-> batch.created,
                          total |-> batch.total]
               /\ ret'.matched + ret'.created = ret'.total
               /\ ret'.created = Cardinality(entities) - batch.base
               /\ entities' = entities /\ links' = links]_vars
    /\ [][(pc = "idle" /\ pc' = "batch")
            => (entities' = entities /\ links' = links /\ batch'.left = batch'.total)]_vars

\* a batch of two records returned one matched and one created
BatchCountersWitness ==
    /\ pc = "idle"
    /\ call.op = "run_entity_resolution"
    /\ ret = [matched |-> 1, created |-> 1, total |-> 2]
    /\ Cardinality(entities) = 1
    /\ Cardinality(links) = 2

\* C19: every iteration of bulk_create_entities skips the records of its slice
\* whose (source, source_identifier) has a link and writes nothing for them,
\* and gives every other record one new entity row (normalized name,
\* lower-cased country, whatever rows exist already) with exactly one link,
\* exact_id and confidence 100; counters grow accordingly, the call returns
\* created + skipped = total and has then committed every row
BulkCounters ==
    /\ [](pc = "bulk" =>
            bulk.created + bulk.skipped = IF bulk.i < bulk.total THEN bulk.i ELSE bulk.total)
    /\ [][(pc = "bulk" /\ pc' = "bulk")
            => LET slice == bulk'.slice
                   Linked == {p \in 1..Len(slice) :
                                 HasLink(links, slice[p].source, slice[p].source_identifier)}
                   New == (1..Len(slice)) \ Linked
                   newE == entities' \ entities
                   newL == links' \ links
               IN  /\ Len(slice) >= 1
                   /\ entities \subseteq entities' /\ links \subseteq links'
                   /\ bulk'.skipped = bulk.skipped + Cardinality(Linked)
                   /\ bulk'.created = bulk.created + Cardinality(New)
                   /\ Cardinality(newE) = Cardinality(New)
                   /\ Cardinality(newL) = Cardinality(New)
                   /\ \A p \in Linked : \A l \in newL : ~SameKey(l, slice[p])
                   /\ \E f \in [New -> newL] :
                         /\ \A p, q \in New : f[p] = f[q] => p = q
                         /\ \A p \in New :
                               /\ SameKey(f[p], slice[p])
                               /\ f[p].source_name = slice[p].name
                               /\ f[p].match_method = "exact_id"
                               /\ f[p].confidence = 100
                               /\ f[p].entity_id \notin EntityIds(entities)
                               /\ LinksOf(links', f[p].entity_id) = {f[p]}
                               /\ [id |-> f[p].entity_id,
                                   primary_name |-> Normalize(slice[p].name),
                                   country |-> LowerCountry(slice[p].country)] \in newE]_vars
    /\ [][(pc = "bulk" /\ pc' = "idle")
            => /\ ret' = [created |-> bulk.created, skipped |-> bulk.skipped,
                          total |-> bulk.total]
               /\ ret'.created + ret'.skipped = ret'.total
               /\ entities' = entities /\ links' = links
               /\ committed' = [entities |-> entities', links |-> links']]_vars

\* a call on two records skipped the linked one and gave the other an entity
\* of its own, next to an entity of the same name and country
BulkCountersWitness ==
    /\ pc = "idle"
    /\ call.op = "bulk_create_entities"
    /\ ret = [created |-> 1, skipped |-> 1, total |-> 2]
    /\ committed = [entities |-> entities, links |-> links]
    /\ \E e1, e2 \in entities :
          /\ e1.id # e2.id
          /\ e1.primary_name = e2.primary_name /\ e1.country = e2.country
          /\ LinksOf(links, e1.id) # {} /\ LinksOf(links, e2.id) # {}

\* C20: a step of resolve_entity, run_entity_resolution or
\* bulk_create_entities keeps every entity row as it is, and a row that
\* disappears is the merge_id row of a merge_entities call; no step leaves a
\* changed row under an id that existed
EntityLifecycle ==
    [][LET merging == pc = "idle" /\ pc' = "idle" /\ call'.op = "merge_entities"
       IN  /\ \A e \in entities : e \in entities' \/ (merging /\ e.id = call'.merge_id)
           /\ \A e \in entities' : e.id \in EntityIds(entities) => e \in entities
           /\ ~merging => entities \subseteq entities']_vars

\* a merge removed its merge_id row and the other rows, one of them made by a
\* bulk call, are as they were
EntityLifecycleWitness ==
    /\ call.op = "merge_entities"
    /\ hist.mergeExisted
    /\ call.merge_id \notin EntityIds(entities)
    /\ call.keep_id \in EntityIds(entities)
    /\ Cardinality(entities) >= 1
    /\ \E l \in links : l \notin committed.links /\ l.entity_id = call.keep_id
    /\ committed.entities # {}

\* C21: every iteration of compute_entity_resolution_metrics counts its pair
\* as a false negative when a record is unresolved and the pair is labelled
\* same, as nothing when a record is unresolved and the label is different,
\* and with both resolved as TP (equal ids, same), FP (equal, different), FN
\* (unequal, same) or nothing (unequal, different); the call returns the
\* counters with TP + FP + FN <= total_pairs = the number of input pairs
ValidationClassification ==
    /\ [][(pc = "metrics" /\ pc' = "metrics")
            => LET pair == metrics'.pair
                   a == {l.entity_id : l \in {k \in links : SameKey(k, pair.source_a)}}
                   b == {l.entity_id : l \in {k \in links : SameKey(k, pair.source_b)}}
                   unresolved == a = {} \/ b = {}
                   same == pair.same_entity
                   tp == metrics'.true_positives - metrics.true_positives
                   fp == metrics'.false_positives - metrics.false_positives
                   fn_ == metrics'.false_negatives - metrics.false_negatives
               IN  /\ metrics'.left = metrics.left - 1
                   /\ metrics'.total = metrics.total
                   /\ (unresolved /\ same) => (tp = 0 /\ fp = 0 /\ fn_ = 1)
                   /\ (unresolved /\ ~same) => (tp = 0 /\ fp = 0 /\ fn_ = 0)
                   /\ (~unresolved /\ a = b /\ same) => (tp = 1 /\ fp = 0 /\ fn_ = 0)
                   /\ (~unresolved /\ a = b /\ ~same) => (tp = 0 /\ fp = 1 /\ fn_ = 0)
                   /\ (~unresolved /\ a # b /\ same) => (tp = 0 /\ fp = 0 /\ fn_ = 1)
                   /\ (~unresolved /\ a # b /\ ~same) => (tp = 0 /\ fp = 0 /\ fn_ = 0)]_vars
    /\ [](pc = "metrics"
            => metrics.true_positives + metrics.false_positives + metrics.false_negatives
                  <= metrics.total - metrics.left)
    /\ [][(pc = "metrics" /\ pc' = "idle")
            => /\ metrics.left = 0
               /\ ret'.total_pairs = metrics.total
               /\ ret'.true_positives = metrics.true_positives
               /\ ret'.false_positives = metrics.false_positives
               /\ ret'.false_negatives = metrics.false_negatives
               /\ ret'.true_positives + ret'.false_positives + ret'.false_negatives
                     <= ret'.total_pairs]_vars

\* two pairs gave one true positive, and one pair with an unresolved record
\* labelled different gave nothing
ValidationClassificationWitness ==
    /\ pc = "idle"
    /\ call.op = "compute_entity_resolution_metrics"
    /\ ret.total_pairs = 2
    /\ ret.true_positives = 1 /\ ret.false_positives = 0 /\ ret.false_negatives = 0
    /\ Cardinality(links) = 2

\* C22: the returned precision is TP/(TP+FP), the recall TP/(TP+FN) and
\* the f1 their harmonic mean, each 0 when its denominator is 0 and each in
\* [0, 1]; a call on no pairs returns 0 for the three and total_pairs = 0
MetricBounds ==
    (call.op = "compute_entity_resolution_metrics") =>
        LET tp == ret.true_positives
            fp == ret.false_positives
            fn_ == ret.false_negatives
            InUnit(x) == x.den > 0 /\ 0 <= x.num /\ x.num <= x.den
        IN  /\ InUnit(ret.precision) /\ InUnit(ret.recall) /\ InUnit(ret.f1)
            /\ IF tp + fp = 0 THEN ret.precision.num = 0
               ELSE ret.precision.num * (tp + fp) = tp * ret.precision.den
            /\ IF tp + fn_ = 0 THEN ret.recall.num = 0
               ELSE ret.recall.num * (tp + fn_) = tp * ret.recall.den
            /\ IF ret.precision.num = 0 /\ ret.recall.num = 0 THEN ret.f1.num = 0
               ELSE ret.f1.num * (2 * tp + fp + fn_) = 2 * tp * ret.f1.den
            /\ ret.total_pairs = 0 =>
                  (ret.precision.num = 0 /\ ret.recall.num = 0 /\ ret.f1.num = 0)

\* a call with one true positive and one false positive: precision 1/2,
\* recall 1, f1 2/3
MetricBoundsWitness ==
    /\ pc = "idle"
    /\ call.op = "compute_entity_resolution_metrics"
    /\ ret.true_positives = 1 /\ ret.false_positives = 1 /\ ret.false_negatives = 0
    /\ ret.precision.num * 2 = ret.precision.den
    /\ ret.recall.num = ret.recall.den
    /\ ret.f1.num * 3 = 2 * ret.f1.den

\* C23: normalize_name applied to its own result returns that result
\* (violated: a name that ends in two legal-suffix tokens loses one token
\* per call)
NormalizeIdempotent ==
    (pc = "normalize" /\ Len(fn.out) >= 2) => fn.out[2] = fn.out[1]

RECURSIVE JoinKeys(_)
JoinKeys(toks) ==
    IF toks = <<>> THEN <<>> ELSE <<" ">> \o Head(toks).key \o JoinKeys(Tail(toks))

\* C24: a name made of a base, in any case, with whitespace around it and
\* punctuation in it, and at most one legal-suffix token at its end, with
\* or without a period, normalizes to the key of the base; a suffix token
\* that another token or a punctuation mark follows is not at the end and
\* its letters stay in the key
SuffixStripping ==
    (pc = "normalize" /\ fn.done) =>
        LET toks == fn.arg.suffixes
            once == fn.out[1]
        IN  IF fn.arg.tail # <<>>
            THEN once = fn.arg.base.key \o JoinKeys(toks)
            ELSE IF Len(toks) <= 1
            THEN once = fn.arg.base.key
            ELSE once = fn.arg.base.key \o JoinKeys(SubSeq(toks, 1, Len(toks) - 1))

\* " Ac'me, LIMITED. " came out as "acme"
SuffixStrippingWitness ==
    /\ pc = "normalize" /\ fn.done
    /\ fn.arg.lead = <<" ">> /\ fn.arg.trail = <<" ">>
    /\ fn.arg.base.text = <<"A","c","'","m","e">>
    /\ fn.arg.punct = <<",">> /\ fn.arg.dot = <<".">> /\ fn.arg.tail = <<>>
    /\ Len(fn.arg.suffixes) = 1
    /\ fn.arg.suffixes[1].text = <<"L","I","M","I","T","E","D">>
    /\ fn.out[1] = <<"a","c","m","e">>

\* C25: once bulk_create_entities has returned, no (source,
\* source_identifier) pair has more than one link and no such pair has links
\* to more than one entity, whatever records the call was given (violated:
\* a pair that occurs twice in one slice gets two entities and two links)
BulkLinkUniqueness ==
    (pc = "idle" /\ call.op = "bulk_create_entities") =>
        \A l1, l2 \in links : SameKey(l1, l2) => (l1 = l2 /\ l1.entity_id = l2.entity_id)

\* C26: merge_entities(keep_id, merge_id) leaves the set of link rows as it
\* was but for the entity_id of the links that pointed at merge_id, which
\* becomes keep_id, and removes the rows with id merge_id and no other row
\* of canonical_entities; and no step of resolve_entity,
\* run_entity_resolution, bulk_create_entities or merge_entities removes a
\* link row
MergeFrame ==
    /\ [][(pc = "idle" /\ pc' = "idle" /\ call'.op = "merge_entities")
            => /\ Cardinality(links') = Cardinality(links)
               /\ \A l \in links :
                     \E k \in links' :
                        /\ k.id = l.id
                        /\ k.source = l.source
                        /\ k.source_identifier = l.source_identifier
                        /\ k.source_name = l.source_name
                        /\ k.match_method = l.match_method
                        /\ k.confidence = l.confidence
                        /\ k.entity_id = IF l.entity_id = call'.merge_id
                                         THEN call'.keep_id ELSE l.entity_id
               /\ \A e \in entities : e.id # call'.merge_id => e \in entities'
               /\ \A e \in entities' : e \in entities /\ e.id # call'.merge_id]_vars
    /\ [][{l.id : l \in links} \subseteq {l.id : l \in links'}]_vars

\* a merge moved the links of an existing entity onto one that had links,
\* next to a third entity with a link of its own
MergeFrameWitness ==
    /\ pc = "idle"
    /\ call.op = "merge_entities"
    /\ hist.mergeExisted
    /\ hist.mergeLinks >= 1
    /\ hist.keepLinks >= 1
    /\ call.merge_id \notin EntityIds(entities)
    /\ \E e \in entities : e.id # call.keep_id /\ LinksOf(links, e.id) # {}

\* C27: whatever runs of the driver (run_entity_resolution with
\* resolve_entity per record, then run_probabilistic_pass) a single writer
\* has made, every link's entity_id names a row of canonical_entities; and
\* a merge of the pass whose keep_id was deleted by an earlier merge of the
\* same pass, like (b, c) after (a, b) and (a, c), reassigns no link
ReferentialIntegrity ==
    /\ [](\A l \in links : l.entity_id \in EntityIds(entities))
    /\ [](\A l \in committed.links : l.entity_id \in EntityIds(committed.entities))
    /\ [][(pc = "loop" /\ pc' = "merge_delete"
             /\ Head(pairs).id_a \notin EntityIds(entities))
            => links' = links]_vars

\* the third merge of a cluster of three is under way: its keep_id is gone
\* already and every link is on the first member
ReferentialIntegrityWitness ==
    /\ pc = "merge_delete"
    /\ pass.merged = 2
    /\ Head(pairs).id_a \notin EntityIds(entities)
    /\ Head(pairs).id_b \notin EntityIds(entities)
    /\ Cardinality(links) = 3
    /\ Cardinality(entities) = 1

\* C28: when run_probabilistic_pass has returned, of every cluster whose
\* mean score is 0.85 or more exactly the first-listed member is left, and
\* it holds every link that the members had when the pass began; every
\* cluster with a lower mean score, and every entity in no cluster of two or
\* more, has its rows and links as they were when the pass began
ClusterCollapse ==
    (pc = "commit_pass") =>
        LET Members(c) == {c.ids[i] : i \in 1..Len(c.ids)}
            Clustered == UNION {Members(pass.clusters[k]) : k \in 1..Len(pass.clusters)}
        IN  /\ entities \subseteq committed.entities
            /\ Cardinality(links) = Cardinality(committed.links)
            /\ \A k \in 1..Len(pass.clusters) :
                  LET c == pass.clusters[k]
                  IN  IF c.avg_score.sum >= ConfidenceThreshold * c.avg_score.n
                      THEN /\ EntityIds(entities) \cap Members(c) = {c.ids[1]}
                           /\ {l.id : l \in LinksOf(links, c.ids[1])}
                                 = {l.id : l \in {x \in committed.links :
                                                      x.entity_id \in Members(c)}}
                      ELSE \A m \in Members(c) :
                              /\ m \in EntityIds(entities)
                              /\ LinksOf(links, m) = LinksOf(committed.links, m)
            /\ \A e \in committed.entities :
                  e.id \notin Clustered =>
                     (e \in entities /\ LinksOf(links, e.id) = LinksOf(committed.links, e.id))

\* a cluster of three entities with mean score 0.85 or more was collapsed
\* onto its first member, which now holds the three links
ClusterCollapseWitness ==
    /\ pc = "commit_pass"
    /\ Len(pass.clusters) = 1
    /\ Len(pass.clusters[1].ids) = 3
    /\ EntityIds(entities) = {pass.clusters[1].ids[1]}
    /\ Cardinality(LinksOf(links, pass.clusters[1].ids[1])) = 3
    /\ Cardinality(committed.entities) = 3

\* C29 as stated: the merged counter that run_probabilistic_pass returns is
\* the number of canonical_entities rows the pass removed
MergedEqualsRemoved ==
    (pc = "commit_pass") =>
        pass.merged = Cardinality(committed.entities) - Cardinality(entities)

\* C29: the merged counter that run_probabilistic_pass returns is the
\* number of merge_entities calls it made, one per pair of every cluster
\* with mean score 0.85 or more, n(n-1)/2 for n members; the rows removed
\* are n-1 per such cluster, so merged is the number of rows removed when
\* every such cluster has two members and exceeds it otherwise
MergedCountsCalls ==
    (pc = "commit_pass") =>
        LET Above == {k \in 1..Len(pass.clusters) :
                         pass.clusters[k].avg_score.sum
                            >= ConfidenceThreshold * pass.clusters[k].avg_score.n}
            Calls == {t \in Above \X (1..3) \X (1..3) :
                         t[2] < t[3] /\ t[3] <= Len(pass.clusters[t[1]].ids)}
            Gone == {t \in Above \X (2..3) : t[2] <= Len(pass.clusters[t[1]].ids)}
            removed == Cardinality(committed.entities) - Cardinality(entities)
        IN  /\ \A k \in 1..Len(pass.clusters) : Len(pass.clusters[k].ids) <= 3
            /\ pass.merged = Cardinality(Calls)
            /\ removed = Cardinality(Gone)
            /\ removed <= pass.merged
            /\ (\A k \in Above : Len(pass.clusters[k].ids) = 2) => removed = pass.merged

\* a pass that merged a cluster of three returned merged = 3 and removed
\* two rows
MergedCountsCallsWitness ==
    /\ pc = "commit_pass"
    /\ pass.pairs_found = 3
    /\ pass.merged = 3
    /\ pass.below_threshold = 0
    /\ Cardinality(committed.entities) - Cardinality(entities) = 2

\* C30: when two resolvers have resolved records of one (source,
\* source_identifier) pair concurrently and both have committed, the store
\* holds one link for that pair (violated: both miss the lookup by source
\* id before either has committed, and each inserts a link)
ConcurrentLinkUniqueness ==
    ( /\ \A p \in Procs : procs[p].pc = "done"
      /\ SameKey(procs[1].rec, procs[2].rec) )
    => Cardinality({l \in committed.links : SameKey(l, procs[1].rec)}) <= 1

====
